---- MODULE Spec2Model ----
(***************************************************************************)
(* Serial electrical-value store of the Solar Panel Pallet Manager:        *)
(* app/serial_database.py (SerialDatabase, normalize_serial),              *)
(* app/path_utils.py (FileMonitor) and app/import_sunsim.py                *)
(* (deduplicate_records, parse_date_time).                                 *)
(*                                                                         *)
(* Strings are sequences of one-character strings.  The "SerialNos" sheet  *)
(* is the sequence of its data rows (row i of the model is worksheet row   *)
(* i + 1).  A Python dict is a sequence of [k, v] pairs in insertion       *)
(* order.  The provenance columns "First Imported" / "Last Updated" are    *)
(* left out: no operation reads them.                                      *)
(***************************************************************************)
EXTENDS Integers, Sequences, FiniteSets, TLC

VARIABLES
    store,                   \* data rows of sheet "SerialNos" of db_file
    dbExists,                \* db_file.exists()
    dbReadable,              \* db_file opens (not locked, not corrupt)
    mtime,                   \* st_mtime of db_file
    masterExists,            \* master_data_file.exists()
    masterMtime,             \* st_mtime of master_data_file
    serial_cache,            \* _serial_cache: <<>> (None) or <<set>>
    serial_cache_timestamp,  \* _serial_cache_timestamp
    data_cache,              \* _data_cache, insertion ordered
    data_cache_timestamp,    \* _data_cache_timestamp
    file_monitor,            \* FileMonitor(db_file)
    master_file_monitor,     \* FileMonitor(master_data_file)
    now,                     \* time.time()
    pallet,                  \* the pallet being built and its max_panels
    objects,                 \* the pallet dicts; a pallet is named by its index
    pallets,                 \* PalletManager.data["pallets"]: pallets by name
    current_pallet,          \* the GUI's current_pallet: a name, 0 for None
    history_file,            \* content of pallet_history.json
    temp_file,               \* pallet_history.json.tmp: "none", or what is
                             \* left of a dump, "partial" or "complete"
    today,                   \* the day datetime.now() falls on
    ret,                     \* the last call and what it returned
    hist                     \* history of imports and external edits

vars == <<store, dbExists, dbReadable, mtime, masterExists, masterMtime, serial_cache,
          serial_cache_timestamp, data_cache, data_cache_timestamp,
          file_monitor, master_file_monitor, now, pallet, objects, pallets,
          current_pallet, history_file, temp_file, today, ret, hist>>

Manager == <<objects, pallets, current_pallet, history_file, temp_file, today>>

----------------------------------------------------------------------------
(* Bounds of the model *)

MaxRows == 3          \* data rows the sheet may grow to
MaxFileRows == 1      \* rows of one source file (cache layer)
MaxMergeRows == 2     \* rows of one source file (importer)
MaxMtime == 3         \* writes of the backing file (its mtime starts at 1)
MaxMasterTouch == 1   \* external modifications of the master data file
StartTime == 1000     \* time.time() at construction
MaxElapsed == 180     \* seconds that pass after construction
TickStep == 90        \* seconds that pass in one step of the clock
MaxParts == 4         \* pieces an identifier handed to normalize_serial has
MaxDedupRows == 3     \* records handed to deduplicate_records
MaxPanels == 3        \* largest max_panels given to add_serial
MaxSourceRows == 2    \* rows of a source file given to the importer
MaxPallets == 2       \* pallet dicts of one session; largest pallet number
MaxHistory == 2       \* entries of the history list
MaxDay == 2           \* days the application is used on
ScanMaxPanels == 1    \* max_panels of the scan flow
MaxSaveFaults == 1    \* saves of the history file that fail

(* Program constants *)

CacheTTL == 180           \* _cache_ttl
DataCacheTTL == 60        \* _data_cache_ttl
DataCacheMaxSize == 1000  \* _data_cache_max_size
EvictSlack == 100         \* "+ 100" of the size limit in the batch loaders

NoMtime == 0 - 1          \* last_mtime is None
NoCache == <<>>           \* _serial_cache is None
NoKey == <<>>             \* the mapping has no 'SerialNo' key
NoneRet == [None |-> TRUE] \* a call returned None

----------------------------------------------------------------------------
(* Strings *)

Letters == {"s", "S", "c", "C"}
Digits == {"0", "1", "2"}

Upper(c) == IF c = "s" THEN "S" ELSE IF c = "c" THEN "C" ELSE c

UpperStr(s) == [i \in 1..Len(s) |-> Upper(s[i])]

RECURSIVE LStrip(_)
LStrip(s) == IF s # <<>> /\ Head(s) = " " THEN LStrip(Tail(s)) ELSE s

RECURSIVE RStrip(_)
RStrip(s) ==
    IF s # <<>> /\ s[Len(s)] = " " THEN RStrip(SubSeq(s, 1, Len(s) - 1)) ELSE s

Strip(s) == RStrip(LStrip(s))

AllDigits(s) == \A i \in 1..Len(s) : s[i] \in Digits

(* re.sub(r'\([a-z]\d+\)$', '', s, flags=re.IGNORECASE) *)
StripCellRef(s) ==
    LET n == Len(s)
        starts == {i \in 1..n : /\ s[i] = "("
                                /\ i + 3 <= n
                                /\ s[i + 1] \in Letters
                                /\ s[n] = ")"
                                /\ AllDigits(SubSeq(s, i + 2, n - 1))}
    IN  IF starts = {} THEN s
        ELSE SubSeq(s, 1, (CHOOSE i \in starts : TRUE) - 1)

(* str(int(float(s))) for a string of digits: no leading zeros *)
RECURSIVE IntStr(_)
IntStr(s) == IF Len(s) > 1 /\ Head(s) = "0" THEN IntStr(Tail(s)) ELSE s

(* the ".0" branch: float(s) succeeds on <digits>.0 *)
StripDotZero(s) ==
    LET n == Len(s) IN
    IF n > 2 /\ s[n - 1] = "." /\ s[n] = "0" /\ AllDigits(SubSeq(s, 1, n - 2))
    THEN IntStr(SubSeq(s, 1, n - 2))
    ELSE s

normalize_serial(serial) ==
    LET s1 == Strip(serial) IN
    IF s1 = <<>> THEN <<>>
    ELSE UpperStr(Strip(StripDotZero(StripCellRef(s1))))

----------------------------------------------------------------------------
(* FileMonitor.  The field polled is history: has_changed() was called *)
(* since the monitor was constructed or reset.                         *)

(* file_path.stat().st_mtime when the file exists *)
FileMonitor_update_mtime(m, exists, mt) ==
    IF exists THEN [m EXCEPT !.last_mtime = mt] ELSE m

FileMonitor_init(exists, mt) ==
    [FileMonitor_update_mtime([last_mtime |-> NoMtime, change_count |-> 0,
                               polled |-> FALSE],
                              exists, mt)
     EXCEPT !.change_count = 0]

(* has_changed() that reports the change and keeps the old baseline *)
FileMonitor_has_changed_KeepBaseline(m, exists, mt) ==
    IF ~exists THEN [result |-> FALSE, monitor |-> [m EXCEPT !.polled = TRUE]]
    ELSE IF m.last_mtime = NoMtime
    THEN [result |-> FALSE,
          monitor |-> [m EXCEPT !.last_mtime = mt, !.polled = TRUE]]
    ELSE IF mt # m.last_mtime
    THEN [result |-> TRUE,
          monitor |-> [m EXCEPT !.change_count = @ + 1, !.polled = TRUE]]
    ELSE [result |-> FALSE, monitor |-> [m EXCEPT !.polled = TRUE]]

(* has_changed(): the result and the monitor afterwards *)
FileMonitor_has_changed_Silent(m, exists, mt) ==
    IF ~exists THEN [result |-> FALSE, monitor |-> [m EXCEPT !.polled = TRUE]]
    ELSE [result |-> FALSE,
          monitor |-> [m EXCEPT !.last_mtime = mt, !.polled = TRUE]]

FileMonitor_has_changed(m, exists, mt) ==
    IF ~exists THEN [result |-> FALSE, monitor |-> [m EXCEPT !.polled = TRUE]]
    ELSE IF m.last_mtime = NoMtime
    THEN [result |-> FALSE,
          monitor |-> [m EXCEPT !.last_mtime = mt, !.polled = TRUE]]
    ELSE IF mt # m.last_mtime
    THEN [result |-> TRUE,
          monitor |-> [last_mtime |-> mt, change_count |-> m.change_count + 1,
                       polled |-> TRUE]]
    ELSE [result |-> FALSE, monitor |-> [m EXCEPT !.polled = TRUE]]

(* reset() that leaves the change counter *)
FileMonitor_reset_KeepCount(m, exists, mt) ==
    FileMonitor_update_mtime([m EXCEPT !.last_mtime = NoMtime,
                                       !.polled = FALSE],
                             exists, mt)

(* reset() without the closing _update_mtime() *)
FileMonitor_reset_NoBaseline(m, exists, mt) ==
    [last_mtime |-> NoMtime, change_count |-> 0, polled |-> FALSE]

FileMonitor_reset(m, exists, mt) ==
    FileMonitor_update_mtime([last_mtime |-> NoMtime, change_count |-> 0,
                              polled |-> FALSE],
                             exists, mt)

----------------------------------------------------------------------------
(* A local variable of the program: v is computed once and F works on  *)
(* the value.                                                          *)
Once(v, F(_)) == CHOOSE out \in {F(x) : x \in {v}} : TRUE

----------------------------------------------------------------------------
(* Ordered dict *)

DictKeys(d) == {d[i].k : i \in 1..Len(d)}

DictGet(d, key) == (CHOOSE i \in 1..Len(d) : d[i].k = key)

DictValue(d, key) == d[DictGet(d, key)].v

DictSet(d, key, val) ==
    IF key \in DictKeys(d)
    THEN [d EXCEPT ![DictGet(d, key)] = [k |-> key, v |-> val]]
    ELSE Append(d, [k |-> key, v |-> val])

(* del d[key] for the first n keys *)
DictDropFirst(d, n) ==
    IF n <= 0 THEN d
    ELSE IF n >= Len(d) THEN <<>>
    ELSE SubSeq(d, n + 1, Len(d))

----------------------------------------------------------------------------
(* Records *)

Fields == {"Pm", "Isc", "Voc", "Ipm", "Vpm"}

(* the mapping built by the lazy loaders: no 'SerialNo' key *)
CacheRecord(row) ==
    [SerialNo |-> NoKey, Pm |-> row.Pm, Isc |-> row.Isc, Voc |-> row.Voc,
     Ipm |-> row.Ipm, Vpm |-> row.Vpm, Date |-> row.Date, TTime |-> row.TTime]

(* the mapping built by the direct read of get_serial_data *)
DirectRecord(stored_serial, row) ==
    [CacheRecord(row) EXCEPT !.SerialNo = stored_serial]

CharCode(c) ==
    IF c \in Digits THEN (IF c = "0" THEN 0 ELSE IF c = "1" THEN 1 ELSE 2)
    ELSE IF c \in Letters THEN 11 ELSE 7

RECURSIVE Seed(_)
Seed(s) == IF s = <<>> THEN 5 ELSE (31 * Seed(Tail(s)) + CharCode(Head(s))) % 101

(* the lookup without its final fallback: None for an unknown serial *)
generate_theoretical_data_None(serial, t) == NoneRet

(* _generate_theoretical_data: values seeded by the canonical serial,   *)
(* date and time taken from the clock                                   *)
generate_theoretical_data(serial, t) ==
    LET serial_str == normalize_serial(serial) IN
    IF serial_str = <<>> THEN NoneRet
    ELSE [SerialNo |-> NoKey,
          Pm |-> 350 + (Seed(serial_str) % 100),
          Isc |-> 8 + (Seed(serial_str) % 4),
          Voc |-> 38 + (Seed(serial_str) % 12),
          Ipm |-> 7 + (Seed(serial_str) % 4),
          Vpm |-> 28 + (Seed(serial_str) % 12),
          Date |-> t, TTime |-> t]

----------------------------------------------------------------------------
(* Query cache layer.  The operators work on the record of the cache    *)
(* layer's fields:                                                      *)
(*   sc, sct   _serial_cache and its timestamp                          *)
(*   dc, dct   _data_cache and its timestamp                            *)
(*   fm, mfm   the two file monitors                                    *)
(*   reads     full reads of the sheet made by the call                 *)
(*   rebuilt   the call rebuilt the serial cache                        *)
(*   loaded    keys the call wrote into the data cache                  *)

Layer ==
    [sc |-> serial_cache, sct |-> serial_cache_timestamp,
     dc |-> data_cache, dct |-> data_cache_timestamp,
     fm |-> file_monitor, mfm |-> master_file_monitor,
     reads |-> 0, rebuilt |-> FALSE, loaded |-> {}]

(* every non-empty normalized identifier of the sheet *)
StoreSerials(st) ==
    {normalize_serial(st[i].SerialNo) : i \in 1..Len(st)} \ {<<>>}

refresh_serial_cache_NoTTL(S) ==
    LET hc == FileMonitor_has_changed(S.fm, dbExists, mtime)
        S1 == [S EXCEPT !.fm = hc.monitor,
                        !.sc = IF hc.result THEN NoCache ELSE @,
                        !.sct = IF hc.result THEN 0 ELSE @]
    IN  IF S1.sc # NoCache THEN S1
        ELSE IF ~dbExists \/ ~dbReadable
        THEN [S1 EXCEPT !.sc = <<{}>>, !.sct = now, !.rebuilt = TRUE]
        ELSE [S1 EXCEPT !.sc = <<StoreSerials(store)>>, !.sct = now,
                        !.reads = @ + 1, !.rebuilt = TRUE]

refresh_serial_cache(S) ==
    LET hc == FileMonitor_has_changed(S.fm, dbExists, mtime)
        S1 == [S EXCEPT !.fm = hc.monitor,
                        !.sc = IF hc.result THEN NoCache ELSE @,
                        !.sct = IF hc.result THEN 0 ELSE @]
    IN  IF S1.sc # NoCache /\ now - S1.sct < CacheTTL THEN S1
        ELSE IF ~dbExists \/ ~dbReadable
        THEN [S1 EXCEPT !.sc = <<{}>>, !.sct = now, !.rebuilt = TRUE]
        ELSE [S1 EXCEPT !.sc = <<StoreSerials(store)>>, !.sct = now,
                        !.reads = @ + 1, !.rebuilt = TRUE]

(* the row filter without the isin(required_set) test: every row *)
MatchingRows_All(st, wanted, i) ==
    [j \in 1..(Len(st) - i + 1) |-> i + j - 1]

(* indices of the rows whose normalized serial is wanted, in sheet order *)
MatchingRows(st, wanted, i) ==
    Once(wanted, LAMBDA required_set :
        SelectSeq([j \in 1..Len(st) |-> j],
                  LAMBDA j : /\ j >= i
                             /\ normalize_serial(st[j].SerialNo)
                                    \in required_set))

(* for _, row in df_filtered.iterrows(): cache[serial] = {...}         *)
(* The loop runs over the first half of the rows and then, from the    *)
(* dict that leaves, over the second half.                             *)
RECURSIVE LoadRows(_, _, _)
LoadRows(dc, st, idx) ==
    Once(dc, LAMBDA d : Once(idx, LAMBDA rows :
        IF rows = <<>> THEN d
        ELSE IF Len(rows) = 1
        THEN DictSet(d, normalize_serial(st[Head(rows)].SerialNo),
                     CacheRecord(st[Head(rows)]))
        ELSE LoadRows(LoadRows(d, st, SubSeq(rows, 1, Len(rows) \div 2)),
                      st, SubSeq(rows, Len(rows) \div 2 + 1, Len(rows)))))

(* "Limit cache size before adding new entries" of the batch loaders *)
EvictForBatch(dc, incoming) ==
    IF Len(dc) + incoming >= DataCacheMaxSize
    THEN DictDropFirst(dc, Len(dc) + incoming - DataCacheMaxSize + EvictSlack)
    ELSE dc

refresh_data_cache(S, required_serials) ==
    LET hc1 == FileMonitor_has_changed(S.fm, dbExists, mtime)
        S1 == [S EXCEPT !.fm = hc1.monitor,
                        !.dc = IF hc1.result THEN <<>> ELSE @,
                        !.dct = IF hc1.result THEN 0 ELSE @]
        hc2 == FileMonitor_has_changed(S1.mfm, masterExists, masterMtime)
        S2 == [S1 EXCEPT !.mfm = hc2.monitor,
                         !.dc = IF hc2.result THEN <<>> ELSE @,
                         !.dct = IF hc2.result THEN 0 ELSE @]
    IN  IF S2.dc # <<>> /\ now - S2.dct < DataCacheTTL THEN S2
        ELSE IF required_serials = {} THEN S2
        ELSE LET S3 == IF Len(S2.dc) > DataCacheMaxSize
                       THEN [S2 EXCEPT !.dc = <<>>] ELSE S2
             IN  IF ~dbExists \/ ~dbReadable
                 THEN [S3 EXCEPT !.dc = <<>>, !.dct = now]
                 ELSE LET required_set ==
                              {normalize_serial(s) : s \in required_serials}
                                  \ {<<>>}
                      IN  Once(MatchingRows(store, required_set, 1),
                               LAMBDA idx :
                          [S3 EXCEPT
                             !.dc = LoadRows(EvictForBatch(@, Len(idx)),
                                             store, idx),
                             !.dct = now,
                             !.reads = @ + 1,
                             !.loaded = @ \cup
                                 {normalize_serial(store[idx[j]].SerialNo) :
                                      j \in 1..Len(idx)}])

(* validate_serial without the db_file.exists() test at its start *)
validate_serial_NoExistsTest(S, serial) ==
    LET serial_normalized == normalize_serial(serial) IN
    IF serial_normalized = <<>> THEN [result |-> FALSE, layer |-> S]
    ELSE LET S1 == refresh_serial_cache(S) IN
         [result |-> S1.sc # NoCache /\ serial_normalized \in S1.sc[1],
          layer |-> S1]

(* validate_serial: the result and the layer afterwards *)
validate_serial(S, serial) ==
    IF ~dbExists THEN [result |-> FALSE, layer |-> S]
    ELSE LET serial_normalized == normalize_serial(serial) IN
         IF serial_normalized = <<>> THEN [result |-> FALSE, layer |-> S]
         ELSE LET S1 == refresh_serial_cache(S) IN
              [result |-> S1.sc # NoCache /\ serial_normalized \in S1.sc[1],
               layer |-> S1]

(* invalidate_cache, against the files as they are when it runs *)
invalidate_cache(S, dbEx, dbMt, maEx, maMt) ==
    [S EXCEPT !.sc = NoCache, !.sct = 0, !.dc = <<>>, !.dct = 0,
              !.fm = FileMonitor_reset(@, dbEx, dbMt),
              !.mfm = FileMonitor_reset(@, maEx, maMt)]

(* get_serial_data: the result, the layer afterwards and the path taken  *)
(* ("cache": answered from _data_cache, "direct": the row-by-row read,    *)
(* "synth": the theoretical fallback)                                     *)
get_serial_data(S, serial) ==
    LET serial_normalized == normalize_serial(serial) IN
    IF serial_normalized = <<>>
    THEN [result |-> NoneRet, layer |-> S, path |-> "none"]
    ELSE
    Once(refresh_data_cache(S, {serial_normalized}), LAMBDA S1 :
    IF serial_normalized \in DictKeys(S1.dc)
    THEN [result |-> DictValue(S1.dc, serial_normalized), layer |-> S1,
          path |-> "cache"]
    ELSE IF ~dbExists \/ ~dbReadable
    THEN [result |-> generate_theoretical_data(serial, now), layer |-> S1,
          path |-> "synth"]
    ELSE
    Once(MatchingRows(store, {serial_normalized}, 1), LAMBDA idx :
    IF idx # <<>>
    THEN LET row == store[Head(idx)]
             data == DirectRecord(normalize_serial(row.SerialNo), row)
             dc1 == IF Len(S1.dc) >= DataCacheMaxSize
                    THEN DictDropFirst(S1.dc, (DataCacheMaxSize * 2) \div 10)
                    ELSE S1.dc
         IN  [result |-> data,
              layer |-> [S1 EXCEPT !.dc = DictSet(dc1, serial_normalized, data),
                                   !.reads = @ + 1,
                                   !.loaded = @ \cup {serial_normalized}],
              path |-> "direct"]
    ELSE [result |-> generate_theoretical_data(serial, now),
          layer |-> [S1 EXCEPT !.reads = @ + 1], path |-> "synth"]))

(* the last row of the sheet with this normalized serial *)
LastRow(st, key) ==
    LET idx == MatchingRows(st, {key}, 1) IN st[idx[Len(idx)]]

(* get_serial_data_batch: result is the returned mapping; early is the  *)
(* set of keys answered from _data_cache before any refresh             *)
get_serial_data_batch(S, serials) ==
    LET serials_normalized ==
            {normalize_serial(s) : s \in {r \in serials : r # <<>>}} \ {<<>>}
    IN
    IF serials_normalized = {}
    THEN [result |-> <<>>, layer |-> S, early |-> {}, late |-> {}]
    ELSE
    Once(serials_normalized \cap DictKeys(S.dc), LAMBDA early :
    Once(serials_normalized \ early, LAMBDA cache_misses :
    Once(IF cache_misses # {} THEN refresh_data_cache(S, cache_misses) ELSE S,
         LAMBDA S1 :
    Once(cache_misses \cap DictKeys(S1.dc), LAMBDA late :
    Once(cache_misses \ late, LAMBDA still_missing :
    IF still_missing = {} \/ ~dbExists \/ ~dbReadable
    THEN [result |-> [k \in serials_normalized |->
                        IF k \in early THEN DictValue(S.dc, k)
                        ELSE IF k \in late THEN DictValue(S1.dc, k)
                        ELSE generate_theoretical_data(k, now)],
          layer |-> S1, early |-> early, late |-> late]
    ELSE
    Once(MatchingRows(store, still_missing, 1), LAMBDA idx :
    Once({normalize_serial(store[idx[j]].SerialNo) : j \in 1..Len(idx)},
         LAMBDA found :
    Once(LoadRows(EvictForBatch(S1.dc, Len(idx)), store, idx), LAMBDA dc2 :
         [result |-> [k \in serials_normalized |->
                        IF k \in early THEN DictValue(S.dc, k)
                        ELSE IF k \in late THEN DictValue(S1.dc, k)
                        ELSE IF k \in found THEN DictValue(dc2, k)
                        ELSE generate_theoretical_data(k, now)],
          layer |-> [S1 EXCEPT !.dc = dc2, !.reads = @ + 1,
                               !.loaded = @ \cup found],
          early |-> early, late |-> late]))))))))

----------------------------------------------------------------------------
(* Record importer *)

NoDate == 0    \* the row has no date (no time): a falsy cell
BadDate == 0 - 1  \* a date (a time) that the parser rejects

(* Cell values of a source file: a number n >= 0, the text of a number *)
(* (NumberText(n), which float() turns into n) or a text that is no    *)
(* number (BadValue, on which float() raises ValueError)               *)
BadValue == 0 - 1
NumberText(n) == 0 - (n + 2)

float(x) == IF x >= 0 THEN x ELSE 0 - (x + 2)

(* the try block of the five float() conversions: the first cell that  *)
(* raises ends the block (except: pass), the cells converted before it *)
(* keep their converted value, the others stay as read                 *)
ConvertValues(row) ==
    LET order == <<"Pm", "Isc", "Voc", "Ipm", "Vpm">>
        bad == {i \in 1..5 : row[order[i]] = BadValue}
        stop == IF bad = {} THEN 6
                ELSE CHOOSE i \in bad : \A j \in bad : i <= j
    IN  [row EXCEPT !.Pm = IF 1 < stop THEN float(@) ELSE @,
                    !.Isc = IF 2 < stop THEN float(@) ELSE @,
                    !.Voc = IF 3 < stop THEN float(@) ELSE @,
                    !.Ipm = IF 4 < stop THEN float(@) ELSE @,
                    !.Vpm = IF 5 < stop THEN float(@) ELSE @]

(* existing_serials: normalized serial -> row, later rows overwrite *)
ExistingSerials(st) ==
    [key \in StoreSerials(st) |->
        LET idx == MatchingRows(st, {key}, 1) IN idx[Len(idx)]]

(* the ws.cell(row_num, ...) writes of the update branch *)
UpdateRow(old, rec) ==
    [old EXCEPT !.Pm = rec.Pm, !.Isc = rec.Isc, !.Voc = rec.Voc,
                !.Ipm = rec.Ipm, !.Vpm = rec.Vpm,
                !.Date = IF rec.Date # NoDate THEN rec.Date ELSE @,
                !.TTime = IF rec.TTime # NoDate THEN rec.TTime ELSE @]

(* the ws.append([...]) of the insert branch *)
NewRow(serial, rec) == [rec EXCEPT !.SerialNo = serial]

(* one iteration of "for idx, row in df.iterrows()" *)
ImportRow(acc, row, existing_serials) ==
    LET serial_normalized == normalize_serial(row.SerialNo)
        rec == ConvertValues(row)
    IN
    IF row.SerialNo = <<>> \/ serial_normalized = <<>> THEN acc
    ELSE IF serial_normalized \in DOMAIN existing_serials
    THEN [acc EXCEPT !.ws[existing_serials[serial_normalized]] =
                          UpdateRow(@, rec),
                     !.updated = @ + 1]
    ELSE [acc EXCEPT !.ws = Append(@, NewRow(serial_normalized, rec)),
                     !.imported = @ + 1]

RECURSIVE ImportRows_StopAtBlank(_, _, _)
ImportRows_StopAtBlank(acc, rows, existing_serials) ==
    IF rows = <<>> \/ normalize_serial(Head(rows).SerialNo) = <<>> THEN acc
    ELSE ImportRows_StopAtBlank(ImportRow(acc, Head(rows), existing_serials),
                                Tail(rows), existing_serials)

RECURSIVE ImportRows(_, _, _)
ImportRows(acc, rows, existing_serials) ==
    IF rows = <<>> THEN acc
    ELSE ImportRows(ImportRow(acc, Head(rows), existing_serials), Tail(rows),
                    existing_serials)

(* the merge of import_simulator_file, up to wb.save *)
import_simulator_file(st, rows) ==
    ImportRows([ws |-> st, imported |-> 0, updated |-> 0], rows,
               ExistingSerials(st))

(* str.lower() on the letters of the column names of the model *)
Lower(c) ==
    CASE c = "S" -> "s" [] c = "E" -> "e" [] c = "R" -> "r" [] c = "I" -> "i"
      [] c = "A" -> "a" [] c = "L" -> "l" [] c = "N" -> "n" [] c = "O" -> "o"
      [] c = "B" -> "b" [] c = "P" -> "p" [] OTHER -> c

LowerStr(s) == [i \in 1..Len(s) |-> Lower(s[i])]

(* sub in s *)
Contains(sub, s) ==
    \E i \in 0..(Len(s) - Len(sub)) : SubSeq(s, i + 1, i + Len(sub)) = sub

(* 'serial' in col_lower and ('no' in col_lower or 'number' in col_lower) *)
IsSerialCol(col) ==
    LET col_lower == Strip(LowerStr(Strip(col))) IN
    /\ Contains(<<"s", "e", "r", "i", "a", "l">>, col_lower)
    /\ \/ Contains(<<"n", "o">>, col_lower)
       \/ Contains(<<"n", "u", "m", "b", "e", "r">>, col_lower)

find_serial_col_First(columns) == IF columns = <<>> THEN 0 ELSE 1

(* serial_col: the first column that resolves, 0 when none does *)
find_serial_col(columns) ==
    LET hits == {i \in 1..Len(columns) : IsSerialCol(columns[i])} IN
    IF hits = {} THEN 0 ELSE CHOOSE i \in hits : \A j \in hits : i <= j

(* what wb.save raises: a file locked by another process and a file    *)
(* the user may not write both raise PermissionError(13), a full disk  *)
(* raises OSError(28)                                                  *)
SaveFaults == {"none", "locked", "denied", "disk_full"}

SaveException(fault) ==
    IF fault \in {"locked", "denied"}
    THEN [type |-> "PermissionError", text |-> "[Errno 13] Permission denied"]
    ELSE [type |-> "OSError", text |-> "[Errno 28] No space left on device"]

ImportError(message, e) == [message |-> message, e |-> e]

save_database_Partial(st, merged, fault) ==
    IF fault = "none"
    THEN [ws |-> merged.ws, saved |-> TRUE, errors |-> <<>>]
    ELSE [ws |-> SubSeq(merged.ws, 1, Len(st)), saved |-> FALSE,
          errors |-> <<ImportError("Failed to save database",
                                   SaveException(fault).text)>>]

(* try: wb.save(self.db_file) except Exception as e: errors.append(...) *)
save_database(st, merged, fault) ==
    IF fault = "none"
    THEN [ws |-> merged.ws, saved |-> TRUE, errors |-> <<>>]
    ELSE [ws |-> st, saved |-> FALSE,
          errors |-> <<ImportError("Failed to save database",
                                   SaveException(fault).text)>>]

(* import_simulator_file as a whole: what it returns (imported,        *)
(* updated, errors; raised is the exception that leaves the method),   *)
(* what db_file holds afterwards (ws), whether load_workbook was       *)
(* called (loaded) and whether wb.save wrote the file (saved)          *)
import_file_outcome(st, exists, readable, file, fault) ==
    LET fail(message, e, loaded) ==
            [imported |-> 0, updated |-> 0,
             errors |-> <<ImportError(message, e)>>, raised |-> "none",
             ws |-> st, loaded |-> loaded, saved |-> FALSE]
    IN
    IF ~file.readable
    THEN fail("Could not read Excel file", "unreadable", FALSE)
    ELSE IF find_serial_col(file.columns) = 0
    THEN fail("Could not find SerialNo column", "", FALSE)
    ELSE IF ~(exists /\ readable)
    THEN fail("Error importing file", "load_workbook", TRUE)
    ELSE LET merged == import_simulator_file(st, file.rows)
             save == save_database(st, merged, fault)
         IN  [imported |-> merged.imported, updated |-> merged.updated,
              errors |-> save.errors, raised |-> "none", ws |-> save.ws,
              loaded |-> TRUE, saved |-> save.saved]

(* _process_import_files: how the caller files one import *)
process_import_file(outcome) ==
    IF outcome.raised = "FileNotFoundError" THEN "File not found"
    ELSE IF outcome.raised = "PermissionError"
    THEN "File is locked or open in another application"
    ELSE IF outcome.raised # "none" THEN "failed"
    ELSE "successful"

(* parse_date_time: 0 for an empty value and for one the parser        *)
(* rejects (the except branches), else the timestamp                   *)
parse_date_time(date_str, time_str) ==
    <<IF date_str = NoDate \/ date_str = BadDate THEN 0 ELSE 86400 * date_str,
      IF time_str = NoDate \/ time_str = BadDate THEN 0
      ELSE 946684800 + 3600 * time_str>>

(* tuple comparison sort_key > existing_key *)
KeyGreater(a, b) ==
    \E i \in 1..Len(a) : a[i] > b[i] /\ \A j \in 1..(i - 1) : a[j] = b[j]

SortKey(file_mtime, record) ==
    <<file_mtime>> \o parse_date_time(record.Date, record.TTime)

(* one iteration of the loop of deduplicate_records *)
DedupRecord(serial_map, record, file_mtime) ==
    LET serial_no == Strip(record.SerialNo)
        sort_key == SortKey(file_mtime, record)
    IN  IF serial_no = <<>> THEN serial_map
        ELSE IF serial_no \notin DictKeys(serial_map)
        THEN DictSet(serial_map, serial_no, <<sort_key, record>>)
        ELSE IF KeyGreater(sort_key, DictValue(serial_map, serial_no)[1])
        THEN DictSet(serial_map, serial_no, <<sort_key, record>>)
        ELSE serial_map

RECURSIVE DedupRecords(_, _, _)
DedupRecords(serial_map, records, file_mtime) ==
    IF records = <<>> THEN serial_map
    ELSE DedupRecords(DedupRecord(serial_map, Head(records), file_mtime),
                      Tail(records), file_mtime)

(* deduplicate_records: serial -> best record, in insertion order *)
deduplicate_records(records, file_mtime) ==
    LET serial_map == DedupRecords(<<>>, records, file_mtime) IN
    [i \in 1..Len(serial_map) |->
        [k |-> serial_map[i].k, v |-> serial_map[i].v[2]]]

(* one iteration of "for serial_no, record in records_dict.items()" *)
ImportValidatedRecord(acc, serial_no, record, existing_serials) ==
    IF serial_no \in DOMAIN existing_serials
    THEN [acc EXCEPT !.ws[existing_serials[serial_no]] = UpdateRow(@, record),
                     !.updated = @ + 1]
    ELSE [acc EXCEPT !.ws = Append(@, NewRow(serial_no, record)),
                     !.imported = @ + 1]

RECURSIVE ImportValidatedRecords(_, _, _)
ImportValidatedRecords(acc, records_dict, existing_serials) ==
    IF records_dict = <<>> THEN acc
    ELSE ImportValidatedRecords(
             ImportValidatedRecord(acc, Head(records_dict).k,
                                   Head(records_dict).v, existing_serials),
             Tail(records_dict), existing_serials)

(* the merge of import_simulator_file_validated, up to wb.save *)
import_simulator_file_validated(st, records_dict) ==
    ImportValidatedRecords([ws |-> st, imported |-> 0, updated |-> 0],
                           records_dict, ExistingSerials(st))

----------------------------------------------------------------------------
(* State machine *)

RetBase ==
    [op |-> "init", arg |-> <<>>, result |-> NoneRet, path |-> "none",
     rebuilt |-> FALSE, reads |-> 0, stale |-> FALSE, dirty |-> FALSE,
     invalidated |-> FALSE, saved |-> FALSE, loaded |-> FALSE,
     errors |-> <<>>, pre |-> <<>>]

(* hist.written[k]: the value rows the imports wrote for identifier k   *)
(*   recs  the rows of the most recent import that had k                *)
(*   n     how many imports had k (counted up to 2)                     *)
(* hist.serialDirty: the file was modified externally after the serial  *)
(*   cache was built and the cache has not been rebuilt or dropped      *)
(* hist.staleKeys: keys put into the data cache before an external      *)
(*   modification and neither reloaded nor dropped since                *)
(* hist.trueResults: has_changed() calls of the client of a monitor    *)
(* that returned true since its last reset()                           *)
(* hist.masterTouches: external modifications of the master data file  *)
HistInit ==
    [written |-> <<>>, serialDirty |-> FALSE, staleKeys |-> {},
     masterTouches |-> 0, trueResults |-> 0, saveFaults |-> 0,
     loadTimes |-> <<>>]

(* create_new_pallet: an empty pallet; max_panels is the limit every   *)
(* add_serial call on this pallet is given                             *)
NewPallet(max_panels) ==
    [serial_numbers |-> <<>>, max_panels |-> max_panels]

add_serial_NoFullTest(p, serial, max_panels) ==
    LET numbers == Append(p.serial_numbers, normalize_serial(serial))
    IN  [pallet |-> [p EXCEPT !.serial_numbers = numbers],
         result |-> Len(numbers) = max_panels]

(* PalletManager.add_serial *)
add_serial(p, serial, max_panels) ==
    IF Len(p.serial_numbers) >= max_panels
    THEN [pallet |-> p, result |-> TRUE]
    ELSE LET numbers == Append(p.serial_numbers, normalize_serial(serial))
         IN  [pallet |-> [p EXCEPT !.serial_numbers = numbers],
              result |-> Len(numbers) = max_panels]

(* Pallet history *)

NoFile == [exists |-> FALSE]   \* the file does not exist
NoDay == 0                     \* completed_at is None

FileOf(content, complete) ==
    [exists |-> TRUE, pallets |-> content, complete |-> complete]

(* PalletManager(history_file, defer_load=True) over a new directory:   *)
(* _ensure_directory_structure writes the default structure             *)
InitManager ==
    /\ objects = <<>>
    /\ pallets = <<>>
    /\ current_pallet = 0
    /\ history_file = FileOf(<<>>, TRUE)
    /\ temp_file = "none"
    /\ today = 1

(* json.dump(self.data): the dicts the list names, in the list's order *)
Snapshot(objs, d) == [i \in 1..Len(d) |-> objs[d[i]]]

save_history_InPlace(objs, d, file, fault) ==
    LET content == Snapshot(objs, d) IN
    IF fault = "none"
    THEN [result |-> TRUE, file |-> FileOf(content, TRUE), temp |-> NoFile]
    ELSE [result |-> FALSE,
          file |-> FileOf(SubSeq(content, 1, Len(content) - 1), FALSE),
          temp |-> NoFile]

(* save_history: json.dump into the temporary file, then               *)
(* temp_file.replace(history_file).  fault "write": the dump raises     *)
(* part way; fault "replace": the rename raises                         *)
save_history(objs, d, file, fault) ==
    LET content == Snapshot(objs, d) IN
    IF fault = "none"
    THEN [result |-> TRUE, file |-> FileOf(content, TRUE), temp |-> NoFile]
    ELSE IF fault = "write"
    THEN [result |-> FALSE, file |-> file,
          temp |-> FileOf(SubSeq(content, 1, Len(content) - 1), FALSE)]
    ELSE [result |-> FALSE, file |-> file, temp |-> FileOf(content, TRUE)]

SaveFaultsOfHistory == {"none", "write", "replace"}

MaxOf(set) == IF set = {} THEN 0 ELSE CHOOSE n \in set : \A m \in set : m <= n

(* create_new_pallet *)
create_new_pallet(objs, d, day) ==
    LET numbers == {objs[d[i]].pallet_number :
                       i \in {j \in 1..Len(d) :
                                 /\ objs[d[j]].completed_at # NoDay
                                 /\ objs[d[j]].completed_at = day}}
    IN  [pallet_number |-> MaxOf(numbers) + 1, serial_numbers |-> <<>>,
         completed_at |-> NoDay, exported |-> FALSE, reset |-> FALSE]

InList(x, list) == \E i \in 1..Len(list) : list[i] = x

(* is_serial_on_any_pallet(serial, current_pallet) *)
is_serial_on_any_pallet(objs, d, serial, cur) ==
    LET normalized_serial == normalize_serial(serial)
        hits == {i \in 1..Len(d) :
                   /\ ~objs[d[i]].reset
                   /\ InList(normalized_serial, objs[d[i]].serial_numbers)}
    IN  IF cur # 0 /\ InList(normalized_serial, objs[cur].serial_numbers)
        THEN [found |-> TRUE, pallet_number |-> objs[cur].pallet_number,
              completed_at |-> NoDay, is_current |-> TRUE]
        ELSE IF hits # {}
        THEN LET i == CHOOSE i \in hits : \A j \in hits : i <= j IN
             [found |-> TRUE, pallet_number |-> objs[d[i]].pallet_number,
              completed_at |-> objs[d[i]].completed_at, is_current |-> FALSE]
        ELSE [found |-> FALSE, pallet_number |-> 0, completed_at |-> NoDay,
              is_current |-> FALSE]

(* complete_pallet(pallet, exported_file): the pallet is stamped and    *)
(* appended, then the history is saved                                  *)
complete_pallet(objs, d, file, ref, day, fault) ==
    LET objs1 == [objs EXCEPT ![ref].completed_at = day,
                              ![ref].exported = TRUE]
        d1 == Append(d, ref)
        save == save_history(objs1, d1, file, fault)
    IN  [result |-> save.result, objects |-> objs1, data |-> d1,
         file |-> save.file, temp |-> save.temp, saved |-> TRUE]

(* delete_pallet(pallet_number) *)
delete_pallet(objs, d, file, pallet_number, fault) ==
    LET d1 == SelectSeq(d, LAMBDA ref :
                               objs[ref].pallet_number # pallet_number)
        save == save_history(objs, d1, file, fault)
    IN  IF Len(d1) < Len(d)
        THEN [result |-> save.result, objects |-> objs, data |-> d1,
              file |-> save.file, temp |-> save.temp, saved |-> TRUE]
        ELSE [result |-> FALSE, objects |-> objs, data |-> d1,
              file |-> file, temp |-> NoFile, saved |-> FALSE]

(* reset_pallet(pallet_number): the first pallet of the list with the   *)
(* number is marked and the history is saved                            *)
reset_pallet(objs, d, file, pallet_number, fault) ==
    LET hits == {i \in 1..Len(d) : objs[d[i]].pallet_number = pallet_number}
    IN  IF hits = {}
        THEN [result |-> FALSE, objects |-> objs, data |-> d, file |-> file,
              temp |-> NoFile, saved |-> FALSE]
        ELSE LET i == CHOOSE i \in hits : \A j \in hits : i <= j
                 objs1 == [objs EXCEPT ![d[i]].reset = TRUE]
                 save == save_history(objs1, d, file, fault)
             IN  [result |-> save.result, objects |-> objs1, data |-> d,
                  file |-> save.file, temp |-> save.temp, saved |-> TRUE]

(* pallets.sort(key=pallet_number, reverse=True): stable, so pallets    *)
(* with one number keep their order                                     *)
RECURSIVE SortDescending(_, _, _)
SortDescending(objs, list, n) ==
    IF n < 0 THEN <<>>
    ELSE SelectSeq(list, LAMBDA ref : objs[ref].pallet_number = n)
             \o SortDescending(objs, list, n - 1)

(* get_history(filter_exported); filter "None" sorts self.data's own    *)
(* list, a filter of "True" or "False" sorts the new filtered list      *)
get_history(objs, d, filter_exported) ==
    LET top == MaxOf({objs[d[i]].pallet_number : i \in 1..Len(d)}) IN
    IF filter_exported = "None"
    THEN [result |-> SortDescending(objs, d, top),
          data |-> SortDescending(objs, d, top)]
    ELSE [result |-> SortDescending(objs,
                        SelectSeq(d, LAMBDA ref :
                                     objs[ref].exported
                                         = (filter_exported = "True")),
                        top),
          data |-> d]

Init ==
    /\ \E defer_init \in BOOLEAN :
        /\ dbExists = ~defer_init
        /\ masterExists = ~defer_init
    /\ dbReadable = TRUE
    /\ store = <<>>
    /\ mtime = 1
    /\ masterMtime = 1
    /\ serial_cache = NoCache
    /\ serial_cache_timestamp = 0
    /\ data_cache = <<>>
    /\ data_cache_timestamp = 0
    /\ file_monitor = FileMonitor_init(dbExists, mtime)
    /\ master_file_monitor = FileMonitor_init(masterExists, masterMtime)
    /\ now = StartTime
    /\ ret = RetBase
    /\ hist = HistInit
    /\ pallet = NewPallet(MaxPanels)
    /\ InitManager

SetLayer(S) ==
    /\ serial_cache' = S.sc
    /\ serial_cache_timestamp' = S.sct
    /\ data_cache' = S.dc
    /\ data_cache_timestamp' = S.dct
    /\ file_monitor' = S.fm
    /\ master_file_monitor' = S.mfm

(* the history after a call that left the layer as S *)
HistAfter(S) ==
    [hist EXCEPT
        !.serialDirty = IF S.rebuilt \/ S.sc = NoCache THEN FALSE ELSE @,
        !.staleKeys = (@ \cap DictKeys(S.dc)) \ S.loaded,
        !.loadTimes =
            IF @ = <<>> THEN @
            ELSE <<{p \in @[1] : p[1] \in DictKeys(S.dc) \ S.loaded}
                     \cup {<<k, now>> : k \in S.loaded \cap DictKeys(S.dc)}>>]

Files == <<store, dbExists, dbReadable, mtime, masterExists, masterMtime>>

(* _load_data_async: the deferred _ensure_database and                  *)
(* _ensure_master_data_sheet                                            *)
EnsureDatabase ==
    /\ ~dbExists \/ ~masterExists
    /\ dbExists' = TRUE
    /\ masterExists' = TRUE
    /\ ret' = [RetBase EXCEPT !.op = "ensure_database"]
    /\ UNCHANGED <<store, dbReadable, mtime, masterMtime, serial_cache,
                   serial_cache_timestamp, data_cache, data_cache_timestamp,
                   file_monitor, master_file_monitor, now, hist, pallet, Manager>>

(* the serial cache is absent or as old as the TTL: a rebuild is due *)
RebuildDue ==
    serial_cache = NoCache \/ now - serial_cache_timestamp >= CacheTTL

ValidateSerial(serial) ==
    \E r \in {validate_serial(Layer, serial)} :
    /\ SetLayer(r.layer)
    /\ ret' = [RetBase EXCEPT !.op = "validate_serial", !.arg = serial,
                              !.result = r.result,
                              !.rebuilt = r.layer.rebuilt,
                              !.reads = r.layer.reads,
                              !.dirty = hist.serialDirty,
                              !.pre =
                                  <<serial_cache = NoCache,
                                    FileMonitor_has_changed(
                                        file_monitor, dbExists, mtime).result,
                                    IF serial_cache = NoCache THEN 0
                                    ELSE now - serial_cache_timestamp>>]
    /\ hist' = HistAfter(r.layer)
    /\ UNCHANGED <<Files, now, pallet, Manager>>

GetSerialData(serial) ==
    \E r \in {get_serial_data(Layer, serial)},
       key \in {normalize_serial(serial)} :
    /\ SetLayer(r.layer)
    /\ ret' = [RetBase EXCEPT !.op = "get_serial_data", !.arg = serial,
                              !.result = r.result, !.path = r.path,
                              !.reads = r.layer.reads,
                              !.stale = /\ r.path = "cache"
                                        /\ key \in hist.staleKeys
                                        /\ key \notin r.layer.loaded]
    /\ hist' = HistAfter(r.layer)
    /\ UNCHANGED <<Files, now, pallet, Manager>>

GetSerialDataBatch(serials) ==
    \E r \in {get_serial_data_batch(Layer, serials)} :
    /\ SetLayer(r.layer)
    /\ ret' = [RetBase EXCEPT !.op = "get_serial_data_batch", !.arg = serials,
                              !.result = r.result,
                              !.reads = r.layer.reads,
                              !.stale =
                                  \/ r.early \cap hist.staleKeys # {}
                                  \/ (r.late \cap hist.staleKeys)
                                         \ r.layer.loaded # {}]
    /\ hist' = HistAfter(r.layer)
    /\ UNCHANGED <<Files, now, pallet, Manager>>

InvalidateCache ==
    LET S == invalidate_cache(Layer, dbExists, mtime, masterExists, masterMtime)
    IN
    /\ SetLayer(S)
    /\ ret' = [RetBase EXCEPT !.op = "invalidate_cache", !.invalidated = TRUE,
                              !.pre = <<serial_cache # NoCache,
                                        data_cache # <<>>,
                                        file_monitor.change_count>>]
    /\ hist' = HistAfter(S)
    /\ UNCHANGED <<Files, now, pallet, Manager>>

(* a direct file_monitor.has_changed() *)
HasChanged ==
    LET hc == FileMonitor_has_changed(file_monitor, dbExists, mtime) IN
    /\ file_monitor' = hc.monitor
    /\ ret' = [RetBase EXCEPT !.op = "has_changed", !.result = hc.result,
                              !.pre = <<file_monitor.last_mtime, mtime,
                                        file_monitor.polled>>]
    /\ UNCHANGED <<Files, serial_cache, serial_cache_timestamp, data_cache,
                   data_cache_timestamp, master_file_monitor, now, hist, pallet, Manager>>

(* the rows a source file wrote for each identifier it had *)
WrittenBy(entries) ==
    LET keys == {normalize_serial(entries[i].k) : i \in 1..Len(entries)}
        old == hist.written
        oldKeys == DOMAIN old
        all == keys \cup oldKeys
        entry(key) ==
            IF key \in keys
            THEN [recs |-> {CacheRecord(entries[i].v) :
                              i \in {j \in 1..Len(entries) :
                                       normalize_serial(entries[j].k) = key}},
                  n |-> IF key \in oldKeys THEN 2 ELSE 1]
            ELSE old[key]
    IN  [key \in all |-> entry(key)]

(* what both importers do after the merge: wb.save, then, when a row   *)
(* was inserted or updated, the master sheet, the copy and              *)
(* invalidate_cache                                                     *)
FinishImport(op, arg, merged, entries) ==
    LET changed == merged.imported > 0 \/ merged.updated > 0
        S == IF changed
             THEN invalidate_cache(Layer, TRUE, mtime + 1, TRUE,
                                   masterMtime + 1)
             ELSE Layer
    IN
    /\ mtime < MaxMtime
    /\ Len(merged.ws) <= MaxRows
    /\ store' = merged.ws
    /\ mtime' = mtime + 1
    /\ masterExists' = (masterExists \/ changed)
    /\ masterMtime' = IF changed THEN masterMtime + 1 ELSE masterMtime
    /\ SetLayer(S)
    /\ ret' = [RetBase EXCEPT !.op = op, !.arg = arg,
                              !.result = <<merged.imported, merged.updated>>,
                              !.saved = TRUE, !.invalidated = changed,
                              !.pre = store]
    /\ hist' = [HistAfter(S) EXCEPT !.written = WrittenBy(entries)]
    /\ UNCHANGED <<dbExists, dbReadable, now, pallet, Manager>>

(* load_workbook raises when db_file is missing or cannot be opened:    *)
(* the except branch                                                    *)
FailImport(op, arg) ==
    /\ ret' = [RetBase EXCEPT !.op = op, !.arg = arg, !.result = <<0, 0>>,
                              !.path = "error"]
    /\ UNCHANGED <<Files, serial_cache, serial_cache_timestamp, data_cache,
                   data_cache_timestamp, file_monitor, master_file_monitor,
                   now, hist, pallet, Manager>>

(* the rows of a file that reach the merge, as (serial, row) entries *)
RECURSIVE RowEntries(_)
RowEntries(rows) ==
    IF rows = <<>> THEN <<>>
    ELSE IF normalize_serial(Head(rows).SerialNo) = <<>>
    THEN RowEntries(Tail(rows))
    ELSE <<[k |-> Head(rows).SerialNo, v |-> Head(rows)]>>
             \o RowEntries(Tail(rows))

ImportFile(rows) ==
    IF dbExists /\ dbReadable
    THEN FinishImport("import_simulator_file", rows,
                      import_simulator_file(store, rows), RowEntries(rows))
    ELSE FailImport("import_simulator_file", rows)

(* import_simulator_file(file_path) with its file-level failures: the  *)
(* source file may be unreadable or lack the SerialNo column, db_file  *)
(* may not open and wb.save may raise                                  *)
ImportSimulatorFile(file, fault) ==
    \E r \in {import_file_outcome(store, dbExists, dbReadable, file, fault)} :
    LET changed == r.saved /\ (r.imported > 0 \/ r.updated > 0)
        S == IF changed
             THEN invalidate_cache(Layer, TRUE, mtime + 1, TRUE,
                                   masterMtime + 1)
             ELSE Layer
    IN
    /\ mtime < MaxMtime
    /\ Len(r.ws) <= MaxRows
    /\ store' = r.ws
    /\ mtime' = IF r.saved THEN mtime + 1 ELSE mtime
    /\ masterExists' = (masterExists \/ changed)
    /\ masterMtime' = IF changed THEN masterMtime + 1 ELSE masterMtime
    /\ SetLayer(S)
    /\ ret' = [RetBase EXCEPT !.op = "import_simulator_file",
                              !.arg = file.rows,
                              !.result = <<r.imported, r.updated>>,
                              !.errors = r.errors,
                              !.path = process_import_file(r),
                              !.loaded = r.loaded,
                              !.saved = r.saved, !.invalidated = changed,
                              !.pre = [store |-> store, layer |-> Layer,
                                       mtime |-> mtime, file |-> file,
                                       fault |-> fault,
                                       dbOpens |-> dbExists /\ dbReadable]]
    /\ hist' = IF r.saved
               THEN [HistAfter(S) EXCEPT
                        !.written = WrittenBy(RowEntries(file.rows))]
               ELSE hist
    /\ UNCHANGED <<dbExists, dbReadable, now, pallet, Manager>>

ImportValidated(rows) ==
    LET records_dict == deduplicate_records(rows, 1) IN
    IF dbExists /\ dbReadable
    THEN FinishImport("import_simulator_file_validated", rows,
                      import_simulator_file_validated(store, records_dict),
                      records_dict)
    ELSE FailImport("import_simulator_file_validated", rows)

(* somebody else saves db_file *)
ExternalTouch ==
    /\ dbExists
    /\ mtime < MaxMtime
    /\ mtime' = mtime + 1
    /\ ret' = [RetBase EXCEPT !.op = "external_edit"]
    /\ hist' = [hist EXCEPT !.serialDirty = (serial_cache # NoCache),
                            !.staleKeys = DictKeys(data_cache)]
    /\ UNCHANGED <<store, dbExists, dbReadable, masterExists, masterMtime,
                   serial_cache,
                   serial_cache_timestamp, data_cache, data_cache_timestamp,
                   file_monitor, master_file_monitor, now, pallet, Manager>>

(* somebody else saves master_data_file *)
ExternalTouchMaster ==
    /\ masterExists
    /\ hist.masterTouches < MaxMasterTouch
    /\ masterMtime' = masterMtime + 1
    /\ ret' = [RetBase EXCEPT !.op = "external_edit_master"]
    /\ hist' = [hist EXCEPT !.masterTouches = @ + 1]
    /\ UNCHANGED <<store, dbExists, dbReadable, mtime, masterExists,
                   serial_cache,
                   serial_cache_timestamp, data_cache, data_cache_timestamp,
                   file_monitor, master_file_monitor, now, pallet, Manager>>

(* another program locks db_file, or leaves it corrupt: load_workbook *)
(* and pd.read_excel raise                                              *)
FileUnreadable ==
    /\ dbExists /\ dbReadable
    /\ dbReadable' = FALSE
    /\ ret' = [RetBase EXCEPT !.op = "file_unreadable"]
    /\ UNCHANGED <<store, dbExists, mtime, masterExists, masterMtime,
                   serial_cache, serial_cache_timestamp, data_cache,
                   data_cache_timestamp, file_monitor, master_file_monitor,
                   now, hist, pallet, Manager>>

FileReadable ==
    /\ dbExists /\ ~dbReadable
    /\ dbReadable' = TRUE
    /\ ret' = [RetBase EXCEPT !.op = "file_readable"]
    /\ UNCHANGED <<store, dbExists, mtime, masterExists, masterMtime,
                   serial_cache, serial_cache_timestamp, data_cache,
                   data_cache_timestamp, file_monitor, master_file_monitor,
                   now, hist, pallet, Manager>>

Tick ==
    /\ now + TickStep <= StartTime + MaxElapsed
    /\ now' = now + TickStep
    /\ ret' = [RetBase EXCEPT !.op = "tick"]
    /\ UNCHANGED <<Files, serial_cache, serial_cache_timestamp, data_cache,
                   data_cache_timestamp, file_monitor, master_file_monitor,
                   hist, pallet, Manager>>

----------------------------------------------------------------------------
(* Inputs *)

FileRow(serial, v, d, t) ==
    [SerialNo |-> serial, Pm |-> 200 + v, Isc |-> 10 + v, Voc |-> 40 + v,
     Ipm |-> 8 + v, Vpm |-> 30 + v, Date |-> d, TTime |-> t]

s1 == <<"s", "1">>
S1 == <<"S", "1">>
S2 == <<"S", "2">>
blank == <<" ">>

SeqsUpTo(set, n) == UNION {[1..m -> set] : m \in 0..n}

(* the specification of the cache layer: one-row-per-identifier files *)
CacheFileRows ==
    {FileRow(s1, 1, 1, 1), FileRow(S2, 1, 1, 1),
     FileRow(blank, 1, 1, 1)}

CacheFiles == SeqsUpTo(CacheFileRows, MaxFileRows)

QuerySerials == {s1, S2, blank}

QueryBatches == {{s1}, {s1, S2}}

Next ==
    \/ EnsureDatabase
    \/ \E rows \in CacheFiles : ImportFile(rows)
    \/ \E serial \in QuerySerials : ValidateSerial(serial)
    \/ \E serial \in QuerySerials \ {blank} : GetSerialData(serial)
    \/ \E serials \in QueryBatches : GetSerialDataBatch(serials)
    \/ InvalidateCache
    \/ HasChanged
    \/ ExternalTouch
    \/ Tick

Spec == Init /\ [][Next]_vars

(* the specification of the importer: files with repeated identifiers *)
MergeFileRows ==
    {FileRow(s, r[1], r[2], r[3]) :
        s \in {s1, S2}, r \in {<<1, 2, 1>>, <<2, 1, 2>>}}

MergeFiles == SeqsUpTo(MergeFileRows, MaxMergeRows)

NextMerge ==
    \/ EnsureDatabase
    \/ \E rows \in MergeFiles : ImportFile(rows)
    \/ \E rows \in MergeFiles : ImportValidated(rows)
    \/ \E serial \in {s1, S2} : ValidateSerial(serial)
    \/ \E serial \in {s1, S2} : GetSerialData(serial)

SpecMerge == Init /\ [][NextMerge]_vars

(* the importer the application calls, import_simulator_file, alone *)
NextFile ==
    \/ EnsureDatabase
    \/ \E rows \in MergeFiles : ImportFile(rows)
    \/ \E serial \in {s1, S2} : ValidateSerial(serial)
    \/ \E serial \in {s1, S2} : GetSerialData(serial)

SpecFile == Init /\ [][NextFile]_vars

(* the detail cache and the master data file: external saves of either *)
(* file between imports and single queries                              *)
NextMaster ==
    \/ EnsureDatabase
    \/ \E rows \in CacheFiles : ImportFile(rows)
    \/ \E serial \in {s1, S2} : GetSerialData(serial)
    \/ ExternalTouch
    \/ ExternalTouchMaster
    \/ Tick

SpecMaster == Init /\ [][NextMaster]_vars

(* the detail cache over time: a store of two rows, single and batch   *)
(* queries, external saves and the clock; hist.loadTimes records when  *)
(* each cached entry was read from the store                           *)
InitTtl ==
    /\ dbExists = TRUE
    /\ masterExists = TRUE
    /\ dbReadable = TRUE
    /\ store = <<NewRow(S1, FileRow(s1, 1, 1, 1)),
                 NewRow(S2, FileRow(S2, 2, 1, 1))>>
    /\ mtime = 1
    /\ masterMtime = 1
    /\ serial_cache = NoCache
    /\ serial_cache_timestamp = 0
    /\ data_cache = <<>>
    /\ data_cache_timestamp = 0
    /\ file_monitor = FileMonitor_init(dbExists, mtime)
    /\ master_file_monitor = FileMonitor_init(masterExists, masterMtime)
    /\ now = StartTime
    /\ ret = RetBase
    /\ hist = [HistInit EXCEPT !.loadTimes = <<{}>>]
    /\ pallet = NewPallet(MaxPanels)
    /\ InitManager

NextTtl ==
    \/ \E serial \in {s1, S2} : GetSerialData(serial)
    \/ \E serials \in QueryBatches : GetSerialDataBatch(serials)
    \/ InvalidateCache
    \/ ExternalTouch
    \/ Tick

SpecTtl == InitTtl /\ [][NextTtl]_vars

(* queries against a backing file that is missing or cannot be opened *)
FaultFiles == {<<FileRow(s1, 1, 1, 1)>>}

NextFault ==
    \/ EnsureDatabase
    \/ \E rows \in FaultFiles : ImportFile(rows)
    \/ \E serial \in QuerySerials : ValidateSerial(serial)
    \/ \E serial \in QuerySerials \ {blank} : GetSerialData(serial)
    \/ \E serials \in QueryBatches : GetSerialDataBatch(serials)
    \/ FileUnreadable
    \/ FileReadable
    \/ Tick

SpecFault == Init /\ [][NextFault]_vars

(* the importer with file-level and row-level problems *)
ColSerialNo == <<"S", "e", "r", "i", "a", "l", "N", "o">>
ColSERIALNO == <<" ", "S", "E", "R", "I", "A", "L", " ", "N", "O">>
ColSerial == <<"S", "e", "r", "i", "a", "l">>
ColBarcode == <<"B", "a", "r", "c", "o", "d", "e">>
ColPm == <<"P", "m">>

SourceRows ==
    {FileRow(s1, 1, 1, 1), FileRow(blank, 1, 1, 1),
     [FileRow(s1, 2, 1, 1) EXCEPT !.Isc = BadValue,
                                  !.Voc = NumberText(42)],
     [FileRow(S2, 1, 1, 1) EXCEPT !.Pm = NumberText(201)]}

SourceFile(readable, columns, rows) ==
    [readable |-> readable, columns |-> columns, rows |-> rows]

(* files that cannot be read, files without a SerialNo column and      *)
(* files with one, of up to MaxSourceRows rows                         *)
SourceFiles ==
    {SourceFile(FALSE, <<>>, <<>>)}
    \cup {SourceFile(TRUE, columns, <<FileRow(s1, 1, 1, 1)>>) :
             columns \in {<<ColSerial, ColPm>>, <<ColBarcode, ColPm>>}}
    \cup {SourceFile(TRUE, <<ColPm, ColSERIALNO>>, <<FileRow(s1, 1, 1, 1)>>)}
    \cup {SourceFile(TRUE, <<ColSerialNo, ColPm>>, rows) :
             rows \in SeqsUpTo(SourceRows, MaxSourceRows)}

(* the application starts over a new database or over one that an     *)
(* earlier run filled, saved for the last time at MaxMtime - 1         *)
InitImport ==
    /\ \E defer_init \in BOOLEAN :
        /\ dbExists = ~defer_init
        /\ masterExists = ~defer_init
        /\ store \in IF defer_init THEN {<<>>}
                     ELSE {<<>>, <<NewRow(S1, FileRow(s1, 1, 1, 1))>>}
    /\ dbReadable = TRUE
    /\ mtime = MaxMtime - 1
    /\ masterMtime = 1
    /\ serial_cache = NoCache
    /\ serial_cache_timestamp = 0
    /\ data_cache = <<>>
    /\ data_cache_timestamp = 0
    /\ file_monitor = FileMonitor_init(dbExists, mtime)
    /\ master_file_monitor = FileMonitor_init(masterExists, masterMtime)
    /\ now = StartTime
    /\ ret = RetBase
    /\ hist = HistInit
    /\ pallet = NewPallet(MaxPanels)
    /\ InitManager

NextImport ==
    \/ EnsureDatabase
    \/ \E file \in SourceFiles, fault \in SaveFaults :
          ImportSimulatorFile(file, fault)
    \/ \E serial \in {s1} : ValidateSerial(serial)

SpecImport == InitImport /\ [][NextImport]_vars

(* normalize_serial on its own.  An input is made of up to MaxParts     *)
(* pieces: blanks, letters, digits, a ".0" tail, cell references.       *)
SerialParts ==
    {<<" ">>, <<"s">>, <<"c">>, <<"1">>, <<"0">>, <<".", "0">>,
     <<"(", "c", "1", ")">>, <<"(", "S", "0", ")">>}

RECURSIVE Pieces(_)
Pieces(n) ==
    IF n = 0 THEN {<<>>}
    ELSE Pieces(n - 1) \cup {a \o b : a \in Pieces(n - 1), b \in SerialParts}

NormalizeInputs == Pieces(MaxParts)

InitNormalize ==
    /\ dbExists = TRUE
    /\ masterExists = TRUE
    /\ dbReadable = TRUE
    /\ store = <<>>
    /\ mtime = 1
    /\ masterMtime = 1
    /\ serial_cache = NoCache
    /\ serial_cache_timestamp = 0
    /\ data_cache = <<>>
    /\ data_cache_timestamp = 0
    /\ file_monitor = FileMonitor_init(dbExists, mtime)
    /\ master_file_monitor = FileMonitor_init(masterExists, masterMtime)
    /\ now = StartTime
    /\ \E x \in NormalizeInputs :
           ret = [RetBase EXCEPT !.op = "input", !.arg = x]
    /\ hist = HistInit
    /\ pallet = NewPallet(MaxPanels)
    /\ InitManager

(* key = normalize_serial(serial) *)
Normalize ==
    /\ ret.op = "input"
    /\ ret' = [RetBase EXCEPT !.op = "normalize_serial", !.arg = ret.arg,
                              !.result = normalize_serial(ret.arg)]
    /\ UNCHANGED <<Files, serial_cache, serial_cache_timestamp, data_cache,
                   data_cache_timestamp, file_monitor, master_file_monitor,
                   now, hist, pallet, Manager>>

(* normalize_serial(key) for a key that normalize_serial returned, as   *)
(* the import loop does with the serials of the sheet                   *)
NormalizeAgain ==
    /\ ret.op = "normalize_serial"
    /\ ret' = [RetBase EXCEPT !.op = "normalize_serial_again",
                              !.arg = ret.arg,
                              !.pre = <<ret.result>>,
                              !.result = normalize_serial(ret.result)]
    /\ UNCHANGED <<Files, serial_cache, serial_cache_timestamp, data_cache,
                   data_cache_timestamp, file_monitor, master_file_monitor,
                   now, hist, pallet, Manager>>

NextNormalize ==
    \/ Normalize
    \/ NormalizeAgain

SpecNormalize == InitNormalize /\ [][NextNormalize]_vars

(* deduplicate_records on its own, on the records of one file *)
DedupRows ==
    {FileRow(serial, v, d, t) :
        serial \in {s1, S1, S2}, v \in {1, 2}, d \in {1, 2, BadDate},
        t \in {1, BadDate}}

InitDedup ==
    /\ dbExists = TRUE
    /\ masterExists = TRUE
    /\ dbReadable = TRUE
    /\ store = <<>>
    /\ mtime = 1
    /\ masterMtime = 1
    /\ serial_cache = NoCache
    /\ serial_cache_timestamp = 0
    /\ data_cache = <<>>
    /\ data_cache_timestamp = 0
    /\ file_monitor = FileMonitor_init(dbExists, mtime)
    /\ master_file_monitor = FileMonitor_init(masterExists, masterMtime)
    /\ now = StartTime
    /\ \E records \in SeqsUpTo(DedupRows, MaxDedupRows) :
           ret = [RetBase EXCEPT !.op = "input", !.arg = records]
    /\ hist = HistInit
    /\ pallet = NewPallet(MaxPanels)
    /\ InitManager

(* deduplicated = deduplicate_records(valid_records, file_mtime, logger) *)
Deduplicate ==
    /\ ret.op = "input"
    /\ \E file_mtime \in {1, 2} :
           ret' = [RetBase EXCEPT !.op = "deduplicate_records",
                                  !.arg = ret.arg,
                                  !.pre = <<file_mtime>>,
                                  !.result =
                                      deduplicate_records(ret.arg, file_mtime)]
    /\ UNCHANGED <<Files, serial_cache, serial_cache_timestamp, data_cache,
                   data_cache_timestamp, file_monitor, master_file_monitor,
                   now, hist, pallet, Manager>>

NextDedup == Deduplicate

SpecDedup == InitDedup /\ [][NextDedup]_vars

(* A pallet filled by add_serial calls with one max_panels *)
PalletSerials == {s1, S2, <<" ", "c", "1">>, <<"1", ".", "0">>}

InitPallet ==
    /\ dbExists = TRUE
    /\ masterExists = TRUE
    /\ dbReadable = TRUE
    /\ store = <<>>
    /\ mtime = 1
    /\ masterMtime = 1
    /\ serial_cache = NoCache
    /\ serial_cache_timestamp = 0
    /\ data_cache = <<>>
    /\ data_cache_timestamp = 0
    /\ file_monitor = FileMonitor_init(dbExists, mtime)
    /\ master_file_monitor = FileMonitor_init(masterExists, masterMtime)
    /\ now = StartTime
    /\ \E max_panels \in 0..MaxPanels : pallet = NewPallet(max_panels)
    /\ InitManager
    /\ ret = RetBase
    /\ hist = HistInit

AddSerial ==
    \E serial \in PalletSerials :
        \E r \in {add_serial(pallet, serial, pallet.max_panels)} :
            /\ pallet' = r.pallet
            /\ ret' = [RetBase EXCEPT !.op = "add_serial",
                                      !.arg = serial,
                                      !.pre = <<pallet.serial_numbers>>,
                                      !.result = r.result]
            /\ UNCHANGED <<Files, serial_cache, serial_cache_timestamp,
                           data_cache, data_cache_timestamp, file_monitor,
                           master_file_monitor, now, hist, Manager>>

NextPallet == AddSerial

SpecPallet == InitPallet /\ [][NextPallet]_vars

(* The pallet builder: scanning, exporting and the history window, over *)
(* a database that holds S1 and S2                                     *)
Database ==
    <<Files, serial_cache, serial_cache_timestamp, data_cache,
      data_cache_timestamp, file_monitor, master_file_monitor, now, pallet>>

ManagerState(fault) ==
    [history |-> Snapshot(objects, pallets), names |-> pallets,
     file |-> history_file, today |-> today, fault |-> fault]

(* what a call of save_history leaves of the temporary file *)
TempLeft(r) ==
    IF ~r.saved THEN temp_file
    ELSE IF r.temp = NoFile THEN "none"
    ELSE IF r.temp.complete THEN "complete" ELSE "partial"

(* pallet dicts that neither the history nor current_pallet refers to  *)
(* are collected; the dicts left are named in their old order          *)
Live(list, cur) == {list[i] : i \in 1..Len(list)} \cup ({cur} \ {0})

NewName(live, ref) == Cardinality({x \in live : x <= ref})

Collect(objs, list, cur) ==
    LET live == Live(list, cur)
        old(n) == CHOOSE ref \in live : NewName(live, ref) = n
    IN  [objects |-> [n \in 1..Cardinality(live) |-> objs[old(n)]],
         pallets |-> [i \in 1..Len(list) |-> NewName(live, list[i])],
         current |-> IF cur = 0 THEN 0 ELSE NewName(live, cur)]

InitHistory ==
    /\ dbExists = TRUE
    /\ masterExists = TRUE
    /\ dbReadable = TRUE
    /\ store = <<NewRow(S1, FileRow(s1, 1, 1, 1)),
                 NewRow(S2, FileRow(S2, 2, 1, 1))>>
    /\ mtime = 1
    /\ masterMtime = 1
    /\ serial_cache = NoCache
    /\ serial_cache_timestamp = 0
    /\ data_cache = <<>>
    /\ data_cache_timestamp = 0
    /\ file_monitor = FileMonitor_init(dbExists, mtime)
    /\ master_file_monitor = FileMonitor_init(masterExists, masterMtime)
    /\ now = StartTime
    /\ ret = RetBase
    /\ hist = HistInit
    /\ pallet = NewPallet(MaxPanels)
    /\ InitManager

(* a save of the history file fails at most MaxSaveFaults times *)
SaveFault(fault) ==
    /\ fault # "none" => hist.saveFaults < MaxSaveFaults
    /\ hist' = [hist EXCEPT !.saveFaults = @ + IF fault = "none" THEN 0 ELSE 1]

(* _confirm_new_pallet without a current pallet: start_new_pallet,     *)
(* current_pallet = create_new_pallet()                                *)
StartNewPallet ==
    /\ current_pallet = 0
    /\ Len(objects) < MaxPallets
    /\ \E new \in {create_new_pallet(objects, pallets, today)} :
        /\ new.pallet_number <= MaxPallets
        /\ objects' = Append(objects, new)
        /\ current_pallet' = Len(objects) + 1
        /\ ret' = [RetBase EXCEPT !.op = "create_new_pallet",
                                  !.result = new,
                                  !.pre = ManagerState("none")]
    /\ UNCHANGED <<Database, hist, pallets, history_file, temp_file, today>>

(* load_history: the default structure for a file that is missing or   *)
(* is no valid JSON                                                    *)
load_history(file) ==
    IF file.exists /\ file.complete THEN file.pallets ELSE <<>>

(* The application is started again: PalletManager(defer_load=True),   *)
(* start_new_pallet() and, scheduled with root.after(50, ...),         *)
(* _load_data_async.  The calls of root.update() during start-up may   *)
(* run the scheduled load before start_new_pallet or not: both orders  *)
(* happen                                                              *)
Restart(load_first) ==
    LET loaded == load_history(history_file)
        names == [i \in 1..Len(loaded) |-> i]
        new == IF load_first
               THEN create_new_pallet(loaded, names, today)
               ELSE create_new_pallet(<<>>, <<>>, today)
    IN
    /\ Len(loaded) < MaxPallets
    /\ new.pallet_number <= MaxPallets
    /\ objects' = Append(loaded, new)
    /\ pallets' = names
    /\ current_pallet' = Len(loaded) + 1
    /\ ret' = [RetBase EXCEPT !.op = "restart", !.arg = load_first,
                              !.result = new,
                              !.pre = ManagerState("none")]
    /\ UNCHANGED <<Database, hist, history_file, temp_file, today>>

(* on_barcode_scanned *)
OnBarcodeScanned(raw) ==
    LET serial == Strip(raw) IN
    \E v \in {validate_serial(Layer, serial)} :
    \E existing \in {is_serial_on_any_pallet(objects, pallets, serial,
                                             current_pallet)} :
    LET path == IF serial = <<>> THEN "empty"
                ELSE IF ~v.result THEN "invalid"
                ELSE IF current_pallet # 0
                        /\ InList(serial,
                                  objects[current_pallet].serial_numbers)
                THEN "duplicate"
                ELSE IF existing.found THEN "duplicate"
                ELSE IF current_pallet # 0
                        /\ Len(objects[current_pallet].serial_numbers)
                               >= ScanMaxPanels
                THEN "full"
                ELSE "added"
        objs1 == IF current_pallet = 0
                 THEN Append(objects,
                             create_new_pallet(objects, pallets, today))
                 ELSE objects
        cur == IF current_pallet = 0 THEN Len(objects) + 1
               ELSE current_pallet
    IN
    /\ (path = "added" /\ current_pallet = 0)
           => /\ Len(objects) < MaxPallets
              /\ objs1[cur].pallet_number <= MaxPallets
    /\ IF serial = <<>> THEN UNCHANGED <<serial_cache,
                serial_cache_timestamp, data_cache, data_cache_timestamp,
                file_monitor, master_file_monitor>>
       ELSE SetLayer(v.layer)
    /\ IF path = "added"
       THEN /\ objects' = [objs1 EXCEPT ![cur] =
                               add_serial(@, serial, ScanMaxPanels).pallet]
            /\ current_pallet' = cur
       ELSE UNCHANGED <<objects, current_pallet>>
    /\ ret' = [RetBase EXCEPT !.op = "on_barcode_scanned", !.arg = raw,
                              !.path = path]
    /\ UNCHANGED <<Files, now, hist, pallet, pallets, history_file,
                   temp_file, today>>

(* export_pallet: complete_pallet(current_pallet, export_path); the    *)
(* current pallet is given up only when the history was saved          *)
ExportPallet(fault) ==
    /\ current_pallet # 0
    /\ objects[current_pallet].serial_numbers # <<>>
    /\ Len(pallets) < MaxHistory
    /\ \E r \in {complete_pallet(objects, pallets, history_file,
                                  current_pallet, today, fault)} :
        /\ objects' = r.objects
        /\ pallets' = r.data
        /\ history_file' = r.file
        /\ temp_file' = TempLeft(r)
        /\ current_pallet' = IF r.result THEN 0 ELSE current_pallet
        /\ SaveFault(fault)
        /\ ret' = [RetBase EXCEPT !.op = "complete_pallet",
                                  !.arg = current_pallet,
                                  !.result = r.result,
                                  !.saved = r.saved,
                                  !.pre = ManagerState(fault)]
    /\ UNCHANGED <<Database, today>>

(* reset_selected_pallet: reset_pallet(pallet_num, reason) *)
ResetPallet(pallet_number, fault) ==
    /\ \E r \in {reset_pallet(objects, pallets, history_file, pallet_number,
                               fault)} :
        /\ r.saved \/ fault = "none"
        /\ SaveFault(fault)
        /\ objects' = r.objects
        /\ pallets' = r.data
        /\ history_file' = r.file
        /\ temp_file' = TempLeft(r)
        /\ ret' = [RetBase EXCEPT !.op = "reset_pallet",
                                  !.arg = pallet_number,
                                  !.result = r.result,
                                  !.saved = r.saved,
                                  !.pre = ManagerState(fault)]
    /\ UNCHANGED <<Database, current_pallet, today>>

(* delete_selected_pallet: delete_pallet(pallet_num) *)
DeletePallet(pallet_number, fault) ==
    /\ \E r \in {delete_pallet(objects, pallets, history_file,
                                pallet_number, fault)} :
        /\ r.saved \/ fault = "none"
        /\ SaveFault(fault)
        /\ \E c \in {Collect(r.objects, r.data, current_pallet)} :
              /\ objects' = c.objects
              /\ pallets' = c.pallets
              /\ current_pallet' = c.current
        /\ history_file' = r.file
        /\ temp_file' = TempLeft(r)
        /\ ret' = [RetBase EXCEPT !.op = "delete_pallet",
                                  !.arg = pallet_number,
                                  !.result = r.result,
                                  !.saved = r.saved,
                                  !.pre = ManagerState(fault)]
    /\ UNCHANGED <<Database, today>>

GetHistory(filter_exported) ==
    /\ \E r \in {get_history(objects, pallets, filter_exported)} :
        /\ pallets' = r.data
        /\ ret' = [RetBase EXCEPT !.op = "get_history",
                                  !.arg = filter_exported,
                                  !.result = r.result,
                                  !.pre = ManagerState("none")]
    /\ UNCHANGED <<Database, hist, objects, current_pallet, history_file,
                   temp_file, today>>

(* midnight passes *)
NextDay ==
    /\ today < MaxDay
    /\ today' = today + 1
    /\ ret' = [RetBase EXCEPT !.op = "next_day"]
    /\ UNCHANGED <<Database, hist, objects, pallets, current_pallet,
                   history_file, temp_file>>

ScanSerials == {s1, <<" ", "S", "2">>, <<"c", "1">>}

NextHistory ==
    \/ StartNewPallet
    \/ \E load_first \in BOOLEAN : Restart(load_first)
    \/ \E raw \in ScanSerials : OnBarcodeScanned(raw)
    \/ \E fault \in SaveFaultsOfHistory : ExportPallet(fault)
    \/ \E n \in 1..MaxPallets, fault \in SaveFaultsOfHistory :
          ResetPallet(n, fault)
    \/ \E n \in 1..MaxPallets, fault \in SaveFaultsOfHistory :
          DeletePallet(n, fault)
    \/ \E filter_exported \in {"None", "True", "False"} :
          GetHistory(filter_exported)
    \/ NextDay

SpecHistory == InitHistory /\ [][NextHistory]_vars

(* one session of one day: scans and the operations that save the      *)
(* history file                                                         *)
NextSave ==
    \/ \E raw \in {s1, <<" ", "S", "2">>} : OnBarcodeScanned(raw)
    \/ \E fault \in SaveFaultsOfHistory : ExportPallet(fault)
    \/ \E pallet_number \in 1..MaxPallets, fault \in SaveFaultsOfHistory :
          ResetPallet(pallet_number, fault)
    \/ \E pallet_number \in 1..MaxPallets, fault \in SaveFaultsOfHistory :
          DeletePallet(pallet_number, fault)

SpecSave == InitHistory /\ [][NextSave]_vars

(* A FileMonitor used on its own, as test_file_monitoring.py does *)
PollMonitor ==
    \E hc \in {FileMonitor_has_changed(file_monitor, dbExists, mtime)} :
    /\ file_monitor' = hc.monitor
    /\ ret' = [RetBase EXCEPT !.op = "has_changed", !.result = hc.result,
                              !.pre = <<file_monitor.last_mtime, mtime,
                                        file_monitor.polled,
                                        file_monitor.change_count>>]
    /\ hist' = [hist EXCEPT !.trueResults = @ + IF hc.result THEN 1 ELSE 0]
    /\ UNCHANGED <<Files, serial_cache, serial_cache_timestamp, data_cache,
                   data_cache_timestamp, master_file_monitor, now, pallet, Manager>>

ResetMonitor ==
    /\ file_monitor' = FileMonitor_reset(file_monitor, dbExists, mtime)
    /\ ret' = [RetBase EXCEPT !.op = "reset",
                              !.pre = <<file_monitor.last_mtime, mtime,
                                        file_monitor.polled,
                                        file_monitor.change_count>>]
    /\ hist' = [hist EXCEPT !.trueResults = 0]
    /\ UNCHANGED <<Files, serial_cache, serial_cache_timestamp, data_cache,
                   data_cache_timestamp, master_file_monitor, now, pallet, Manager>>

NextMonitor ==
    \/ EnsureDatabase
    \/ PollMonitor
    \/ ResetMonitor
    \/ ExternalTouch
    \/ Tick

SpecMonitor == Init /\ [][NextMonitor]_vars

(* The layer over a database file that already holds more rows than the *)
(* data cache may hold.                                                 *)
BigRows == DataCacheMaxSize + 1

Digit(d) == IF d = 0 THEN "0" ELSE IF d = 1 THEN "1" ELSE "2"

BigSerial(i) ==
    <<"S", Digit((i \div 729) % 3), Digit((i \div 243) % 3),
      Digit((i \div 81) % 3), Digit((i \div 27) % 3), Digit((i \div 9) % 3),
      Digit((i \div 3) % 3), Digit(i % 3)>>

BigStore == [i \in 1..BigRows |-> FileRow(BigSerial(i), 1, 1, 1)]

BigBatch(lo, hi) == {BigSerial(i) : i \in lo..hi}

(* every stored identifier, asked for while the data cache is empty *)
GetAllDetails ==
    /\ data_cache = <<>>
    /\ GetSerialDataBatch(BigBatch(1, BigRows))

InitBig ==
    /\ dbExists = TRUE
    /\ masterExists = TRUE
    /\ dbReadable = TRUE
    /\ store = BigStore
    /\ mtime = 1
    /\ masterMtime = 1
    /\ serial_cache = NoCache
    /\ serial_cache_timestamp = 0
    /\ data_cache = <<>>
    /\ data_cache_timestamp = 0
    /\ file_monitor = FileMonitor_init(dbExists, mtime)
    /\ master_file_monitor = FileMonitor_init(masterExists, masterMtime)
    /\ now = StartTime
    /\ ret = RetBase
    /\ hist = HistInit
    /\ pallet = NewPallet(MaxPanels)
    /\ InitManager

NextBig ==
    \/ GetAllDetails
    \/ GetSerialDataBatch(BigBatch(1, EvictSlack))
    \/ GetSerialData(BigSerial(BigRows))
    \/ InvalidateCache
    \/ ExternalTouch
    \/ Tick

SpecBig == InitBig /\ [][NextBig]_vars

----------------------------------------------------------------------------
(* Properties *)

Canon(i) == normalize_serial(store[i].SerialNo)

RowsOf(st, key) == {i \in 1..Len(st) : normalize_serial(st[i].SerialNo) = key}

FiveEq(a, b) == \A f \in Fields : a[f] = b[f]

ImportOps == {"import_simulator_file", "import_simulator_file_validated"}

(* what import_source leaves in the sheet *)
ImportSource(op, st, rows) ==
    IF op = "import_simulator_file"
    THEN import_simulator_file(st, rows).ws
    ELSE import_simulator_file_validated(st, deduplicate_records(rows, 1)).ws

(* the values a row of an import put into the sheet: the five readings, *)
(* and the date and the time when the row had them                      *)
WrittenAs(result, w) ==
    /\ FiveEq(result, w)
    /\ w.Date # NoDate => result.Date = w.Date
    /\ w.TTime # NoDate => result.TTime = w.TTime

(* C1: after any sequence of imports from the empty sheet, no two rows  *)
(* of the sheet have identifiers with the same canonical form.           *)
C1_NoDuplicateRows ==
    \A i, j \in 1..Len(store) : Canon(i) = Canon(j) => i = j

(* C2: after an import that inserted or updated a row, validate_serial  *)
(* returns true for every identifier the import had and get_serial_data *)
(* returns the values that import wrote for it.                          *)
C2_ImportVisible ==
    LET key == normalize_serial(ret.arg) IN
    /\ (ret.op = "validate_serial" /\ key \in DOMAIN hist.written)
           => ret.result = TRUE
    /\ (ret.op = "get_serial_data" /\ key \in DOMAIN hist.written)
           => \E w \in hist.written[key].recs : WrittenAs(ret.result, w)

(* C3: when the backing file was modified externally after the serial   *)
(* cache was built, the next validate_serial rebuilds the cache from    *)
(* the sheet, whatever other queries ran in between.                     *)
C3_EditRebuildsSerialCache ==
    (/\ ret.op = "validate_serial"
     /\ normalize_serial(ret.arg) # <<>>
     /\ ret.dirty)
        => ret.rebuilt

(* C4: after an external modification of the backing file neither       *)
(* get_serial_data nor get_serial_data_batch returns a record that was  *)
(* cached before the modification without reading the sheet again.       *)
C4_EditInvalidatesDataCache ==
    ret.op \in {"get_serial_data", "get_serial_data_batch"} => ~ret.stale

(* C5: every import that saved the backing file has called              *)
(* invalidate_cache, so the monitor's next has_changed() reports false. *)
C5_SaveInvalidates ==
    (ret.op \in ImportOps /\ ret.saved)
        => /\ ret.invalidated
           /\ ~FileMonitor_has_changed(file_monitor, dbExists, mtime).result

(* the monitor right after reset(): no change counted, the file's       *)
(* modification time as the baseline, the next has_changed() false      *)
MonitorIsReset(m, exists, mt) ==
    /\ m.change_count = 0
    /\ m.last_mtime = IF exists THEN mt ELSE NoMtime
    /\ ~FileMonitor_has_changed(m, exists, mt).result

(* C6: after invalidate_cache the serial cache is absent, the data      *)
(* cache is empty, both timestamps are 0 and both monitors are reset to *)
(* their file's current modification time.                               *)
C6_InvalidateResets ==
    ret.invalidated
        => /\ serial_cache = NoCache
           /\ serial_cache_timestamp = 0
           /\ data_cache = <<>>
           /\ data_cache_timestamp = 0
           /\ MonitorIsReset(file_monitor, dbExists, mtime)
           /\ MonitorIsReset(master_file_monitor, masterExists, masterMtime)

(* an explicit invalidate_cache() of populated caches whose monitor had *)
(* counted a change of the file                                          *)
C6_Witness ==
    /\ ret.op = "invalidate_cache"
    /\ ret.pre[1] /\ ret.pre[2] /\ ret.pre[3] > 0
    /\ dbExists /\ mtime > 1
    /\ file_monitor.last_mtime = mtime

(* C7: without external edits, a populated serial cache is the set of   *)
(* canonical identifiers of the sheet and every data-cache entry has    *)
(* the values of the sheet's row for its identifier.                     *)
C7_CachesAgreeWithStore ==
    /\ serial_cache # NoCache => serial_cache[1] = StoreSerials(store)
    /\ \A i \in 1..Len(data_cache) :
           /\ RowsOf(store, data_cache[i].k) # {}
           /\ \A j \in RowsOf(store, data_cache[i].k) :
                  [data_cache[i].v EXCEPT !.SerialNo = NoKey]
                      = CacheRecord(store[j])

(* C8: an import of a file with two rows for one identifier and         *)
(* different (date, time) leaves only the values of the row with the    *)
(* greater key (file mtime, date, time), in either order of the rows.    *)
C8_LaterRowWins ==
    (/\ ret.op \in ImportOps
     /\ ret.saved
     /\ Len(ret.arg) = 2
     /\ normalize_serial(ret.arg[1].SerialNo) # <<>>
     /\ normalize_serial(ret.arg[1].SerialNo)
            = normalize_serial(ret.arg[2].SerialNo)
     /\ <<ret.arg[1].Date, ret.arg[1].TTime>>
            # <<ret.arg[2].Date, ret.arg[2].TTime>>)
        => LET key == normalize_serial(ret.arg[1].SerialNo)
               winner == IF KeyGreater(SortKey(1, ret.arg[1]),
                                       SortKey(1, ret.arg[2]))
                         THEN ret.arg[1] ELSE ret.arg[2]
           IN  /\ \A j \in RowsOf(store, key) : FiveEq(store[j], winner)
               /\ ImportSource(ret.op, ret.pre, ret.arg)
                      = ImportSource(ret.op, ret.pre,
                                     <<ret.arg[2], ret.arg[1]>>)

(* C9: when an identifier was imported from one file and later from     *)
(* another, get_serial_data returns the five electrical values of the   *)
(* later import.                                                         *)
C9_LastImportWins ==
    LET key == normalize_serial(ret.arg) IN
    (/\ ret.op = "get_serial_data"
     /\ key \in DOMAIN hist.written
     /\ hist.written[key].n = 2)
        => \E w \in hist.written[key].recs : FiveEq(ret.result, w)

(* C10: an import of a one-row file for an identifier that is already   *)
(* in the sheet returns (0, 1) and leaves exactly one row for it, at    *)
(* the row index it had.                                                 *)
C10_UpdateInPlace ==
    (/\ ret.op \in ImportOps
     /\ ret.saved
     /\ Len(ret.arg) = 1
     /\ normalize_serial(ret.arg[1].SerialNo) \in StoreSerials(ret.pre))
        => LET key == normalize_serial(ret.arg[1].SerialNo) IN
           /\ ret.result = <<0, 1>>
           /\ Cardinality(RowsOf(store, key)) = 1
           /\ RowsOf(store, key) \subseteq RowsOf(ret.pre, key)

(* identifiers with a non-empty canonical form and no row in the sheet *)
Absent(serial) ==
    /\ normalize_serial(serial) # <<>>
    /\ normalize_serial(serial) \notin StoreSerials(store)

C12_SynthesizedIsStable ==
    [][\A serial \in {ret.arg}, first \in {ret.result} :
          (/\ ret.op = "get_serial_data"
           /\ ret.path = "synth"
           /\ ret'.op = "tick")
              => (get_serial_data(Layer, serial).result)' = first]_vars

(* C13: one get_serial_data_batch call reads the sheet at most once,    *)
(* whatever the batch and the state of the cache.                       *)
C13_BatchReadsOnce ==
    ret.op = "get_serial_data_batch" => ret.reads <= 1

(* C14: after every get_serial_data, get_serial_data_batch, import and  *)
(* invalidate_cache the data cache holds at most _data_cache_max_size   *)
(* entries, whatever the size of the batch.                             *)
C14_CacheWithinMax == Len(data_cache) <= DataCacheMaxSize

(* C15: when get_serial_data finds no row after reading the sheet, the  *)
(* synthesized record is in the data cache under the canonical          *)
(* identifier, and the same call made again is answered from the cache  *)
(* without reading the sheet.                                           *)
C15_SynthesizedIsCached ==
    (/\ ret.op = "get_serial_data"
     /\ ret.path = "synth"
     /\ ret.reads > 0)
        => LET key == normalize_serial(ret.arg)
               again == get_serial_data(Layer, ret.arg)
           IN  /\ key \in DictKeys(data_cache)
               /\ DictValue(data_cache, key) = ret.result
               /\ again.path = "cache"
               /\ again.layer.reads = 0

(* C16: the mapping get_serial_data returns has the same keys for a     *)
(* stored record as for a synthesized one, on every path: the seven     *)
(* value keys and no 'SerialNo'.                                        *)
C16_SameShape ==
    (ret.op = "get_serial_data" /\ ret.result # NoneRet)
        => ret.result.SerialNo = NoKey

(* the canonical identifiers a call passed to the detail queries *)
Requested(r) ==
    IF r.op = "get_serial_data" THEN {normalize_serial(r.arg)}
    ELSE IF r.op = "get_serial_data_batch"
    THEN {normalize_serial(a) : a \in r.arg}
    ELSE {}

C18_UnreadableGivesEmptySet ==
    (/\ ret.op = "validate_serial"
     /\ normalize_serial(ret.arg) # <<>>
     /\ ~dbExists \/ ~dbReadable
     /\ ret.pre[1] \/ ret.pre[3] >= CacheTTL)
        => ret.result = FALSE /\ serial_cache = <<{}>>

(* C18 as amended: a missing file makes validate_serial return false    *)
(* and leave the serial cache as it was; a file that exists and cannot  *)
(* be read when a rebuild is due makes it return false and leave the    *)
(* empty set.                                                           *)
C18_FalseOnMissingOrUnreadable ==
    [][(ret'.op = "validate_serial" /\ normalize_serial(ret'.arg) # <<>>)
           => /\ ~dbExists
                  => /\ ret'.result = FALSE
                     /\ UNCHANGED <<serial_cache, serial_cache_timestamp>>
              /\ (dbExists /\ ~dbReadable /\ RebuildDue)
                  => /\ ret'.result = FALSE
                     /\ serial_cache' = <<{}>>
                     /\ serial_cache_timestamp' = now]_vars

(* validate_serial answered false for a stored identifier because the   *)
(* file could not be read, and left the empty set                       *)
C18_Witness ==
    /\ ret.op = "validate_serial"
    /\ normalize_serial(ret.arg) \in StoreSerials(store)
    /\ dbExists /\ ~dbReadable
    /\ ret.rebuilt
    /\ ret.result = FALSE
    /\ serial_cache = <<{}>>

(* C19: validate_serial rebuilds the serial cache by one read of the    *)
(* sheet exactly when the cache is absent, the monitor reports a change *)
(* or the cache is older than the TTL; otherwise it answers from the    *)
(* cached set, reads nothing and leaves the rebuild timestamp.          *)
C19_RebuildExactlyWhenDue ==
    ret.op = "validate_serial"
        => LET due == ret.pre[1] \/ ret.pre[2] \/ ret.pre[3] > CacheTTL IN
           /\ due => ret.rebuilt /\ ret.reads = 1
           /\ ~due => /\ ~ret.rebuilt /\ ret.reads = 0
                       /\ serial_cache_timestamp = now - ret.pre[3]

(* C19 as amended: for an identifier with a non-empty canonical form    *)
(* and a backing file that exists and can be read, the rebuild happens  *)
(* exactly when the cache is absent, the monitor reports a change or    *)
(* the age of the cache is at least the TTL.                            *)
C19_RebuildWhenAbsentChangedOrExpired ==
    (/\ ret.op = "validate_serial"
     /\ normalize_serial(ret.arg) # <<>>
     /\ dbExists /\ dbReadable)
        => LET due == ret.pre[1] \/ ret.pre[2] \/ ret.pre[3] >= CacheTTL IN
           /\ due => /\ ret.rebuilt /\ ret.reads = 1
                      /\ serial_cache = <<StoreSerials(store)>>
                      /\ serial_cache_timestamp = now
           /\ ~due => /\ ~ret.rebuilt /\ ret.reads = 0
                       /\ serial_cache_timestamp = now - ret.pre[3]
                       /\ ret.result = (normalize_serial(ret.arg)
                                             \in serial_cache[1])

(* a rebuild at the age of exactly the TTL, with no change of the file *)
C19_Witness ==
    /\ ret.op = "validate_serial"
    /\ ~ret.pre[1] /\ ~ret.pre[2] /\ ret.pre[3] = CacheTTL
    /\ ret.rebuilt

(* C20: the first has_changed() after a FileMonitor is constructed or  *)
(* reset returns false and takes the modification time it sees as the  *)
(* baseline, also when the file was modified since the construction or *)
(* the reset.                                                          *)
C20_FirstPollIsBaseline ==
    (ret.op = "has_changed" /\ ~ret.pre[3])
        => /\ ret.result = FALSE
           /\ dbExists => file_monitor.last_mtime = ret.pre[2]

(* C20 as amended: the first has_changed() takes the modification time *)
(* it sees as the baseline; it returns false when the file is missing, *)
(* was missing at the construction or reset, or still has the          *)
(* modification time it had then, and true when the file was modified  *)
(* in between.                                                         *)
C20_FirstPollReportsEarlierEdit ==
    (ret.op = "has_changed" /\ ~ret.pre[3])
        => /\ ret.result = (/\ dbExists
                            /\ ret.pre[1] # NoMtime
                            /\ ret.pre[2] # ret.pre[1])
           /\ dbExists => file_monitor.last_mtime = ret.pre[2]

(* a first poll after an edit made since the construction or reset *)
C20_Witness ==
    /\ ret.op = "has_changed" /\ ~ret.pre[3]
    /\ dbExists /\ ret.pre[1] # NoMtime /\ ret.pre[2] # ret.pre[1]
    /\ ret.result = TRUE
    /\ file_monitor.last_mtime = mtime

(* C21: once a baseline exists, has_changed() returns true exactly     *)
(* when the modification time of the file differs from the baseline;   *)
(* it then moves the baseline and adds one to the change counter, a    *)
(* call that follows without a further modification returns false, and *)
(* the counter is the number of true results since the last reset.     *)
C21_ChangeDetection ==
    (ret.op = "has_changed" /\ ret.pre[1] # NoMtime)
        => /\ ret.result = (ret.pre[2] # ret.pre[1])
           /\ ret.result => /\ file_monitor.last_mtime = ret.pre[2]
                             /\ file_monitor.change_count = ret.pre[4] + 1
           /\ ~ret.result => /\ file_monitor.last_mtime = ret.pre[1]
                              /\ file_monitor.change_count = ret.pre[4]
           /\ ~FileMonitor_has_changed(file_monitor, dbExists, mtime).result
           /\ file_monitor.change_count = hist.trueResults

(* the second change reported since the reset *)
C21_Witness ==
    /\ ret.op = "has_changed" /\ ret.pre[1] # NoMtime
    /\ ret.result = TRUE
    /\ hist.trueResults = 2
    /\ file_monitor.last_mtime = mtime

(* C22: reset() sets the change counter to 0 and takes the current      *)
(* modification time of the file as the baseline (a baseline that is    *)
(* not None when the file exists), and reports no change: the next      *)
(* has_changed() without a modification returns false.                  *)
C22_ResetRebaselines ==
    ret.op = "reset"
        => /\ file_monitor.change_count = 0
           /\ dbExists => (/\ file_monitor.last_mtime = mtime
                           /\ file_monitor.last_mtime # NoMtime)
           /\ ~dbExists => file_monitor.last_mtime = NoMtime
           /\ ~FileMonitor_has_changed(file_monitor, dbExists, mtime).result

(* a reset of a monitor that had counted changes and lagged the file *)
C22_Witness ==
    /\ ret.op = "reset"
    /\ ret.pre[4] > 0 /\ ret.pre[1] # ret.pre[2]
    /\ dbExists
    /\ file_monitor.change_count = 0

(* C27: normalize_serial is idempotent:                                 *)
(* normalize_serial(normalize_serial(x)) = normalize_serial(x) for      *)
(* every x, also with several trailing cell references or a ".0" tail   *)
(* in front of a cell reference.                                        *)
C27_NormalizeIdempotent ==
    ret.op = "normalize_serial_again" => ret.result = ret.pre[1]

(* the result the claim C28 describes: surrounding blanks, one trailing *)
(* "(letter digits)" and a trailing ".0" of an integral number removed, *)
(* in upper case                                                        *)
DescribedNormalForm(x) ==
    LET a == Strip(x)
        b == StripCellRef(a)
        n == Len(b)
        c == IF n > 2 /\ b[n - 1] = "." /\ b[n] = "0"
                      /\ AllDigits(SubSeq(b, 1, n - 2))
             THEN SubSeq(b, 1, n - 2) ELSE b
    IN  IF a = <<>> THEN <<>> ELSE UpperStr(Strip(c))

(* C28: normalize_serial returns "" for empty and blank input and      *)
(* otherwise the input without surrounding blanks, without one         *)
(* trailing "(letter digits)" and without the ".0" of an integral      *)
(* number, in upper case.                                              *)
C28_NormalForm ==
    ret.op = "normalize_serial" => ret.result = DescribedNormalForm(ret.arg)

(* the record of recs that C29 says stays for the identifier id: the   *)
(* first one among those with the greatest (mtime, date, time) key     *)
BestRecord(recs, id, file_mtime) ==
    LET mine == {i \in 1..Len(recs) : normalize_serial(recs[i].SerialNo) = id}
        top == {i \in mine :
                  \A j \in mine : ~KeyGreater(SortKey(file_mtime, recs[j]),
                                              SortKey(file_mtime, recs[i]))}
    IN  recs[CHOOSE i \in top : \A j \in top : i <= j]

(* C29: deduplicate_records keeps, for each identifier, the record with *)
(* the greatest (file mtime, date, time) key, the first of them when    *)
(* keys are equal; a date or time that cannot be parsed counts as the   *)
(* earliest value and the record is still considered.                   *)
C29_GreatestKeyPerIdentifier ==
    ret.op = "deduplicate_records"
        => \A id \in {normalize_serial(ret.arg[i].SerialNo) :
                         i \in 1..Len(ret.arg)} \ {<<>>} :
              LET kept == {e \in 1..Len(ret.result) :
                             normalize_serial(ret.result[e].k) = id}
              IN  /\ Cardinality(kept) = 1
                  /\ \A e \in kept :
                         ret.result[e].v = BestRecord(ret.arg, id, ret.pre[1])

(* C30: with one max_panels a pallet never holds more than max_panels   *)
(* serials: add_serial on a full pallet adds nothing and returns True,  *)
(* any other call appends the normalized serial and returns True        *)
(* exactly when the pallet has then reached max_panels.                 *)
C30_NeverOverfull ==
    /\ Len(pallet.serial_numbers) <= pallet.max_panels
    /\ ret.op = "add_serial"
        => IF Len(ret.pre[1]) >= pallet.max_panels
           THEN /\ pallet.serial_numbers = ret.pre[1]
                /\ ret.result = TRUE
           ELSE /\ pallet.serial_numbers
                     = Append(ret.pre[1], normalize_serial(ret.arg))
                /\ ret.result
                     = (Len(pallet.serial_numbers) = pallet.max_panels)

C30_Witness ==
    /\ ret.op = "add_serial"
    /\ Len(ret.pre[1]) = pallet.max_panels
    /\ pallet.max_panels > 1
    /\ ret.result = TRUE
    /\ pallet.serial_numbers[1] = S1

(* the last call was import_simulator_file with its file-level inputs *)
Imported == ret.op = "import_simulator_file" /\ ret.pre # <<>>

(* the caches and the monitors are as they were before the call *)
CachesUntouched ==
    /\ serial_cache = ret.pre.layer.sc
    /\ serial_cache_timestamp = ret.pre.layer.sct
    /\ data_cache = ret.pre.layer.dc
    /\ data_cache_timestamp = ret.pre.layer.dct
    /\ file_monitor = ret.pre.layer.fm
    /\ master_file_monitor = ret.pre.layer.mfm

NoSerialColumn(file) ==
    /\ file.readable
    /\ \A i \in 1..Len(file.columns) : ~IsSerialCol(file.columns[i])

(* C23: when no column of the source file resolves to the identifier    *)
(* column the import returns (0, 0, errors) with a descriptive error,    *)
(* does not open or write the backing store and does not invalidate the  *)
(* caches.                                                               *)
C23_MissingColumnFailsCleanly ==
    (Imported /\ NoSerialColumn(ret.pre.file))
        => /\ ret.result = <<0, 0>>
           /\ Len(ret.errors) = 1
           /\ ret.errors[1].message = "Could not find SerialNo column"
           /\ ~ret.loaded
           /\ ~ret.saved
           /\ store = ret.pre.store
           /\ mtime = ret.pre.mtime
           /\ ~ret.invalidated
           /\ CachesUntouched

C23_Witness ==
    /\ Imported
    /\ ret.pre.file.columns = <<ColSerial, ColPm>>
    /\ ret.pre.dbOpens
    /\ ret.pre.store # <<>>
    /\ serial_cache # NoCache
    /\ ret.errors # <<>>

C25_LockedIsDistinguishable ==
    (Imported /\ ret.pre.fault = "locked" /\ ret.loaded /\ ret.pre.dbOpens)
        => \A fault \in SaveFaults \ {"none", "locked"} :
              LET other == import_file_outcome(ret.pre.store, TRUE, TRUE,
                                               ret.pre.file, fault)
              IN  <<other.errors, process_import_file(other)>>
                      # <<ret.errors, ret.path>>

HasIdentifier(row) == normalize_serial(row.SerialNo) # <<>>

ProblemRow(row) ==
    ~HasIdentifier(row) \/ \E f \in Fields : row[f] = BadValue

Without(rows, i) == SubSeq(rows, 1, i - 1) \o SubSeq(rows, i + 1, Len(rows))

RowsFor(st, id) ==
    SelectSeq(st, LAMBDA row : normalize_serial(row.SerialNo) = id)

(* C26: a problem in one row never aborts the import: rows whose         *)
(* identifier normalizes to "" are skipped without an error entry, a row *)
(* with unparsable values is still processed, and every other row of the *)
(* file is inserted or updated as if the problem row were not there.     *)
C26_RowProblemsNeverAbort ==
    (/\ Imported
     /\ ret.pre.file.readable
     /\ ~NoSerialColumn(ret.pre.file)
     /\ ret.pre.dbOpens
     /\ ret.pre.fault = "none")
        => LET rows == ret.arg IN
           /\ ret.saved
           /\ ret.errors = <<>>
           /\ ret.result[1] + ret.result[2]
                 = Cardinality({i \in 1..Len(rows) : HasIdentifier(rows[i])})
           /\ \A i \in 1..Len(rows) :
                 HasIdentifier(rows[i])
                     => normalize_serial(rows[i].SerialNo)
                            \in StoreSerials(store)
           /\ \A i \in 1..Len(rows) :
                 ProblemRow(rows[i])
                     => LET alt == import_simulator_file(ret.pre.store,
                                                         Without(rows, i)).ws
                        IN  \A id \in StoreSerials(alt)
                                    \ {normalize_serial(rows[i].SerialNo)} :
                               RowsFor(store, id) = RowsFor(alt, id)

C26_Witness ==
    /\ Imported
    /\ ret.saved
    /\ Len(ret.arg) = 2
    /\ ~HasIdentifier(ret.arg[1])
    /\ ret.arg[2].Isc = BadValue
    /\ ret.result = <<0, 1>>
    /\ store[1].Isc = BadValue

History == Snapshot(objects, pallets)

(* no two entries of a history list carry one number on one day *)
NoTwins(list) ==
    \A i, j \in 1..Len(list) :
        (i < j /\ list[i].completed_at = list[j].completed_at)
            => list[i].pallet_number # list[j].pallet_number

HistorySerials(list) ==
    UNION {{list[i].serial_numbers[k] : k \in 1..Len(list[i].serial_numbers)} :
              i \in 1..Len(list)}

OnlyOnNumber(list, serial, n) ==
    \A i \in 1..Len(list) :
        InList(serial, list[i].serial_numbers) => list[i].pallet_number = n

(* C31: after reset_pallet(n) returned True the serials recorded only on *)
(* history pallets numbered n can be reused (is_serial_on_any_pallet     *)
(* returns None for them) while the pallet stays in history marked as    *)
(* reset, also when pallets completed on different days share number n.  *)
C31_ResetFreesSerials ==
    (ret.op = "reset_pallet" /\ ret.result = TRUE /\ NoTwins(History))
        => /\ \E i \in 1..Len(History) :
                 History[i].pallet_number = ret.arg /\ History[i].reset
           /\ \A serial \in HistorySerials(History) :
                 OnlyOnNumber(History, serial, ret.arg)
                     => ~is_serial_on_any_pallet(objects, pallets, serial,
                                                 0).found

(* C32: delete_pallet(n) removes one pallet, the one numbered n, and     *)
(* returns the result of saving; every other pallet is kept; when no     *)
(* pallet has number n it returns False and leaves the history and the   *)
(* history file unchanged.                                               *)
C32_DeleteRemovesOne ==
    (ret.op = "delete_pallet" /\ NoTwins(ret.pre.history))
        => LET before == ret.pre.history
               numbered == {i \in 1..Len(before) :
                              before[i].pallet_number = ret.arg}
           IN  IF numbered = {}
               THEN /\ ret.result = FALSE
                    /\ History = before
                    /\ history_file = ret.pre.file
               ELSE /\ ret.result = (ret.pre.fault = "none")
                    /\ \E i \in numbered :
                          History = SubSeq(before, 1, i - 1)
                                      \o SubSeq(before, i + 1, Len(before))

SaveOps == {"complete_pallet", "reset_pallet", "delete_pallet"}

(* C33: save_history is atomic: when writing fails it returns False and  *)
(* the history file keeps its previous content; the file is replaced     *)
(* only by a completely written temporary file.                          *)
C33_SaveIsAtomic ==
    /\ history_file.exists /\ history_file.complete
    /\ (ret.op \in SaveOps /\ ret.saved)
        => /\ ret.result = (ret.pre.fault = "none")
           /\ ~ret.result => history_file = ret.pre.file
           /\ ret.result => history_file = FileOf(History, TRUE)

C33_Witness ==
    /\ ret.op \in SaveOps
    /\ ret.saved
    /\ ret.pre.fault = "write"
    /\ ret.result = FALSE
    /\ temp_file = "partial"
    /\ ret.pre.file.pallets # <<>>
    /\ history_file = ret.pre.file
    /\ History # ret.pre.file.pallets

(* C34: create_new_pallet returns an empty pallet numbered 1 + the       *)
(* highest number among the history pallets completed today (1 when      *)
(* there is none) and does not modify the history; so two pallets        *)
(* completed on the same day never share a number.                       *)
C34_DayNumbering ==
    hist.saveFaults = 0
        => /\ ret.op = "create_new_pallet"
               => /\ ret.result.pallet_number
                        = 1 + MaxOf({History[i].pallet_number :
                                        i \in {j \in 1..Len(History) :
                                                  History[j].completed_at
                                                      = today}})
                  /\ ret.result.serial_numbers = <<>>
                  /\ History = ret.pre.history
           /\ NoTwins(History)

(* C35: the (imported, updated) pair returned by the importer counts the *)
(* rows that were actually persisted: the first number is the number of  *)
(* rows the store gained, and if saving the backing file fails the call  *)
(* reports an error and both counts are 0.                               *)
C35_CountsArePersistedRows ==
    Imported
        => /\ ret.result[1] = Len(store) - Len(ret.pre.store)
           /\ ~ret.saved => (ret.result = <<0, 0>> /\ ret.errors # <<>>)

(* the identifiers the last detail query asked for *)
Asked ==
    IF ret.op = "get_serial_data" THEN {normalize_serial(ret.arg)}
    ELSE {normalize_serial(s) : s \in ret.arg}

(* C36: the detail cache honours its TTL cache-wide: neither             *)
(* get_serial_data nor get_serial_data_batch returns an entry that was   *)
(* loaded from the store more than one TTL ago without re-reading the    *)
(* store, also when other identifiers were loaded (and the refresh       *)
(* timestamp renewed) in the meantime.                                   *)
C36_EntriesWithinTtl ==
    (ret.op \in {"get_serial_data", "get_serial_data_batch"}
         /\ hist.loadTimes # <<>>)
        => \A p \in hist.loadTimes[1] :
              (p[1] \in Asked /\ p[1] \in DictKeys(data_cache))
                  => now - p[2] <= DataCacheTTL

(* how many pallets that are not marked reset hold the serial: the      *)
(* current pallet and every entry of the history                        *)
PalletsHolding(serial) ==
    Cardinality({i \in 1..Len(History) :
                    /\ ~History[i].reset
                    /\ InList(serial, History[i].serial_numbers)})
    + IF current_pallet # 0
         /\ InList(serial, objects[current_pallet].serial_numbers)
      THEN 1 ELSE 0

(* C37: under the scan flow with complete, reset and delete a canonical  *)
(* serial is at any time on at most one pallet that is not marked reset, *)
(* counting the current pallet and every history entry.                  *)
C37_SerialOnOnePallet ==
    \A serial \in {S1, S2} : PalletsHolding(serial) <= 1

(* C38: when complete_pallet returns False because saving failed the     *)
(* pallet is not left in the in-memory history, so a retry of the export *)
(* never records the pallet twice.                                       *)
C38_FailedCompleteLeavesNoEntry ==
    /\ (ret.op = "complete_pallet" /\ ret.result = FALSE)
           => ~InList(ret.arg, pallets)
    /\ \A i, j \in 1..Len(pallets) : i < j => pallets[i] # pallets[j]

(* C39: get_history is read-only: for every filter argument it leaves    *)
(* the content and the order of the stored history list unchanged.       *)
C39_GetHistoryReadOnly ==
    ret.op = "get_history"
        => /\ pallets = ret.pre.names
           /\ History = ret.pre.history

====
